---- MODULE Spec2Model ----
(***************************************************************************)
(* Model of the php-version-manager GUI (phpvm-gui): the data hook         *)
(* usePhpVersions, the operation hook useVersionOperations, the            *)
(* notification hook useNotifications, and the command surface of the      *)
(* backend they drive.  JavaScript strings are sequences of one-character  *)
(* strings, so that startsWith / endsWith / includes / split behave as in  *)
(* the source.                                                             *)
(***************************************************************************)
EXTENDS Integers, Sequences, FiniteSets, TLC

\* ------------------------------------------------------------------------
\* Bounds of the model
\* ------------------------------------------------------------------------
\* user interactions (clicks that start or prepare an operation) per run
MaxOps == 2
\* backend commands that may fail per run
MaxFailures == 1
\* edits of the version input per run
MaxTyped == 1
\* size of a PHP archive, in the units progress is reported in
ArchiveUnits == 2
\* version strings passed to one call of a versionUtils function
MaxVersions == 3
\* notifications shown in a run of the notification hook alone
MaxShown == 2
\* clicks on the buttons of the cache tab
MaxCacheOps == 3
\* useTauriReady: the retries of checkTauri
maxAttempts == 100
\* download-progress events emitted and not yet handled
MaxPending == 2

\* ------------------------------------------------------------------------
\* JavaScript values
\* ------------------------------------------------------------------------
\* null: a one-element tuple no character sequence can equal
Null == <<"null">>

\* null where an array of strings is expected
NullList == <<Null>>

\* the empty string
Empty == << >>

\* a duration argument that was not passed (undefined)
Undefined == -1

V820 == <<"8", ".", "2", ".", "0">>
V831 == <<"8", ".", "3", ".", "1">>
HyphenTs == <<"-", "t", "s">>
HyphenNts == <<"-", "n", "t", "s">>
DotTs == <<".", "t", "s">>
DotNts == <<".", "n", "t", "s">>

\* versions the user can type or click
BaseVersions == {V820, V831}

\* Array.prototype.includes / some(x => x === v)
InList(v, list) == \E i \in 1..Len(list) : list[i] = v

\* String.prototype.startsWith
StartsWith(s, p) == Len(s) >= Len(p) /\ SubSeq(s, 1, Len(p)) = p

\* String.prototype.endsWith
EndsWith(s, p) == Len(s) >= Len(p) /\ SubSeq(s, Len(s) - Len(p) + 1, Len(s)) = p

\* String.prototype.includes
Includes(s, p) == \E i \in 1..(Len(s) - Len(p) + 1) : SubSeq(s, i, i + Len(p) - 1) = p

\* String.prototype.lastIndexOf for a single character, as a 1-based index (0: absent)
LastIndexOf(s, c) ==
  IF \E i \in 1..Len(s) : s[i] = c
  THEN CHOOSE i \in 1..Len(s) : s[i] = c /\ \A j \in (i+1)..Len(s) : s[j] # c
  ELSE 0

\* String.prototype.split on a single character
RECURSIVE Split(_, _)
Split(s, c) ==
  IF \A i \in 1..Len(s) : s[i] # c
  THEN <<s>>
  ELSE LET i == CHOOSE k \in 1..Len(s) : s[k] = c /\ \A j \in 1..(k-1) : s[j] # c
       IN  <<SubSeq(s, 1, i - 1)>> \o Split(SubSeq(s, i + 1, Len(s)), c)

\* Array.prototype.join with a single character
RECURSIVE Join(_, _)
Join(parts, c) ==
  IF Len(parts) = 0 THEN << >>
  ELSE IF Len(parts) = 1 THEN parts[1]
  ELSE parts[1] \o <<c>> \o Join(Tail(parts), c)

\* parts.slice(0, 3)
Slice3(parts) == SubSeq(parts, 1, IF Len(parts) < 3 THEN Len(parts) ELSE 3)

\* ------------------------------------------------------------------------
\* utils/versionUtils.js
\* ------------------------------------------------------------------------
\* parseVersion knowing the hyphen encoding only
parseVersionHyphenOnly(versionStr) ==
  IF Includes(versionStr, HyphenTs) \/ Includes(versionStr, HyphenNts)
  THEN LET parts == Split(versionStr, "-")
       IN  [baseVersion |-> parts[1],
            variant |-> IF Len(parts) >= 2 THEN parts[2] ELSE << >>,
            fullVersion |-> versionStr]
  ELSE [baseVersion |-> Join(Slice3(Split(versionStr, ".")), "."),
        variant |-> << >>,
        fullVersion |-> versionStr]

parseVersion(versionStr) ==
  IF Includes(versionStr, HyphenTs) \/ Includes(versionStr, HyphenNts)
  THEN LET parts == Split(versionStr, "-")
       IN  [baseVersion |-> parts[1],
            variant |-> IF Len(parts) >= 2 THEN parts[2] ELSE << >>,
            fullVersion |-> versionStr]
  ELSE IF EndsWith(versionStr, DotTs) \/ EndsWith(versionStr, DotNts)
  THEN LET lastDotIndex == LastIndexOf(versionStr, ".")
           beforeLastDot == SubSeq(versionStr, 1, lastDotIndex - 1)
           variantPart == SubSeq(versionStr, lastDotIndex + 1, Len(versionStr))
       IN  [baseVersion |-> Join(Slice3(Split(beforeLastDot, ".")), "."),
            variant |-> variantPart,
            fullVersion |-> versionStr]
  ELSE [baseVersion |-> Join(Slice3(Split(versionStr, ".")), "."),
        variant |-> << >>,
        fullVersion |-> versionStr]

isTS(v) == EndsWith(v, HyphenTs) \/ EndsWith(v, DotTs)

isNTS(v) == EndsWith(v, HyphenNts) \/ EndsWith(v, DotNts)

\* the keys of the Map built by groupVersionsByBase, in insertion order
RECURSIVE groupKeys(_)
groupKeys(list) ==
  IF Len(list) = 0 THEN << >>
  ELSE LET rest == groupKeys(SubSeq(list, 1, Len(list) - 1))
           b == parseVersion(list[Len(list)]).baseVersion
       IN  IF \E i \in 1..Len(rest) : rest[i] = b THEN rest ELSE Append(rest, b)

\* grouped.get(baseVersion): the variants of one base version, in input order
groupVariants(list, base) ==
  SelectSeq(list, LAMBDA v : parseVersion(v).baseVersion = base)

\* a push that replaces the group of an existing key
pushVersionReplace(grouped, v) ==
  LET baseVersion == parseVersion(v).baseVersion
  IN  IF \E i \in 1..Len(grouped) : grouped[i].key = baseVersion
      THEN [i \in 1..Len(grouped) |->
              IF grouped[i].key = baseVersion
              THEN [grouped[i] EXCEPT !.variants = <<v>>]
              ELSE grouped[i]]
      ELSE Append(grouped, [key |-> baseVersion, variants |-> <<v>>])

\* grouped.get(baseVersion).push(v), after grouped.set(baseVersion, []) for a new key;
\* the Map is the sequence of its entries in insertion order
pushVersion(grouped, v) ==
  LET baseVersion == parseVersion(v).baseVersion
  IN  IF \E i \in 1..Len(grouped) : grouped[i].key = baseVersion
      THEN [i \in 1..Len(grouped) |->
              IF grouped[i].key = baseVersion
              THEN [grouped[i] EXCEPT !.variants = Append(@, v)]
              ELSE grouped[i]]
      ELSE Append(grouped, [key |-> baseVersion, variants |-> <<v>>])

\* groupVersionsByBase: versions.forEach over a new Map
RECURSIVE groupVersionsByBase(_)
groupVersionsByBase(list) ==
  IF Len(list) = 0 THEN << >>
  ELSE pushVersion(groupVersionsByBase(SubSeq(list, 1, Len(list) - 1)), list[Len(list)])

\* the decimal digits
DigitChars == <<"0", "1", "2", "3", "4", "5", "6", "7", "8", "9">>

\* NaN: an integer that no version number and no difference of two is
NaN == -1000000

\* a conversion that reads the leading digit only
NumberLeadingDigit(s) ==
  IF Len(s) = 0 THEN 0
  ELSE IF \E d \in 0..9 : DigitChars[d + 1] = s[1]
  THEN CHOOSE d \in 0..9 : DigitChars[d + 1] = s[1]
  ELSE NaN

\* the value of a string of decimal digits
RECURSIVE digitsValue(_)
digitsValue(s) ==
  IF Len(s) = 0 THEN 0
  ELSE 10 * digitsValue(SubSeq(s, 1, Len(s) - 1))
       + (CHOOSE d \in 0..9 : DigitChars[d + 1] = s[Len(s)])

\* Number(s): the value of a string of decimal digits, 0 for "", NaN for a string
\* with another character
Number(s) ==
  IF \A i \in 1..Len(s) : \E d \in 0..9 : DigitChars[d + 1] = s[i]
  THEN digitsValue(s)
  ELSE NaN

\* parts.push(0) while parts.length < 3
RECURSIVE padZero(_)
padZero(parts) == IF Len(parts) < 3 THEN padZero(Append(parts, 0)) ELSE parts

\* compareVersions: parseVersionParts
parseVersionParts(versionStr) ==
  LET strs == Split(parseVersion(versionStr).baseVersion, ".")
  IN  padZero([i \in 1..Len(strs) |-> Number(strs[i])])

\* compareVersions: the difference at the first of major, minor, patch that differs
compareVersions(v1, v2) ==
  LET parts1 == parseVersionParts(v1)
      parts2 == parseVersionParts(v2)
      \* parts1[i] !== parts2[i]: NaN differs from every number and from NaN
      differ(i) == parts1[i] = NaN \/ parts2[i] = NaN \/ parts1[i] # parts2[i]
  IN  IF \A i \in 1..3 : ~differ(i) THEN 0
      ELSE LET i == CHOOSE k \in 1..3 : differ(k) /\ \A j \in 1..(k-1) : ~differ(j)
           IN  IF parts1[i] = NaN \/ parts2[i] = NaN THEN NaN
               ELSE parts2[i] - parts1[i]

\* ------------------------------------------------------------------------
\* components/tabs/InstalledVersionsTab.jsx
\* ------------------------------------------------------------------------
\* a group marked when activeVersion starts with its base version
isActiveStartsWith(active, entry) == StartsWith(active, entry.key)

\* isActive of a group: activeVersion is its base version or one of its variants
isActive(active, entry) == active = entry.key \/ InList(active, entry.variants)

\* Array.prototype.sort (stable) of entries by compareVersions of their keys
RECURSIVE sortEntries(_)
sortEntries(entries) ==
  IF Len(entries) = 0 THEN << >>
  ELSE LET rest == sortEntries(SubSeq(entries, 1, Len(entries) - 1))
           e == entries[Len(entries)]
           \* e goes after every entry that does not compare greater than it
           n == Cardinality({i \in 1..Len(rest) : compareVersions(rest[i].key, e.key) <= 0})
       IN  SubSeq(rest, 1, n) \o <<e>> \o SubSeq(rest, n + 1, Len(rest))

\* sortedVersions: the active groups first, then the others newest first
sortedVersions(installed, active) ==
  LET entries == groupVersionsByBase(installed)
  IN  SelectSeq(entries, LAMBDA e : isActive(active, e))
      \o sortEntries(SelectSeq(entries, LAMBDA e : ~isActive(active, e)))

\* ------------------------------------------------------------------------
\* The backend behind the command surface (VersionIdentity, StateStore,
\* Installer, ActivationManager, Removal)
\* ------------------------------------------------------------------------
Variants == {"ts", "nts"}

Identities == [base : BaseVersions, variant : Variants]

\* ActiveState.activeIdentity = none
NoneId == [base |-> << >>, variant |-> "none"]

\* the order in which the backend enumerates install records
IdOrder ==
  << [base |-> V820, variant |-> "ts"], [base |-> V820, variant |-> "nts"],
     [base |-> V831, variant |-> "ts"], [base |-> V831, variant |-> "nts"] >>

VariantText(variant) == IF variant = "ts" THEN <<"t", "s">> ELSE <<"n", "t", "s">>

\* VersionIdentity.format under one of the two literal encodings ("-" or ".")
formatIdentity(id, enc) == id.base \o <<enc>> \o VariantText(id.variant)

\* zero-padding of a base version with fewer than three numeric components
RECURSIVE padParts(_)
padParts(parts) == IF Len(parts) >= 3 THEN parts ELSE padParts(Append(parts, <<"0">>))

\* VersionIdentity.parse: both encodings and bare versions are accepted
parseIdentity(text) ==
  LET suffix == IF EndsWith(text, HyphenNts) \/ EndsWith(text, DotNts) THEN "nts"
                ELSE IF EndsWith(text, HyphenTs) \/ EndsWith(text, DotTs) THEN "ts"
                ELSE "unspecified"
      cut == IF suffix = "nts" THEN Len(HyphenNts)
             ELSE IF suffix = "ts" THEN Len(HyphenTs) ELSE 0
      numeric == SubSeq(text, 1, Len(text) - cut)
  IN  [base |-> Join(Slice3(padParts(Split(numeric, "."))), "."), variant |-> suffix]

VARIABLES
  bInstalled,        \* StateStore: the identities that have an InstallRecord
  bActive,           \* StateStore: ActiveState.activeIdentity, or NoneId
  bEnc,              \* the literal encoding the backend formats identities with
  failures           \* commands that have failed so far

backendVars == <<bInstalled, bActive, bEnc, failures>>

\* the install records `installed` as listInstalled() returns them: formatted, in
\* enumeration order
formatInstalled(installed) ==
  LET ids == SelectSeq(IdOrder, LAMBDA id : id \in installed)
  IN  [i \in 1..Len(ids) |-> formatIdentity(ids[i], bEnc)]

\* the active identity `active` as getActive() returns it: formatted, or null
formatActive(active) == IF active = NoneId THEN Null ELSE formatIdentity(active, bEnc)

\* listInstalled()
listInstalled == formatInstalled(bInstalled)

\* getActive()
getActive == formatActive(bActive)

\* listAvailable(): the catalog of the Provider
listAvailable == <<V831, V820>>

\* installVersion({version, thread_safe}): the identity that gets an InstallRecord
\* (installing an installed identity is a no-op)
installTarget(version, threadSafeParam) ==
  [base |-> parseIdentity(version).base, variant |-> threadSafeParam]

\* switchVersion(text): the identities activate() may make active.  An identity
\* needs a matching InstallRecord; a bare version has variant Unspecified, and it
\* is either rejected (NotFoundError) or resolved to an installed variant of it.
switchTargets(text) ==
  LET id == parseIdentity(text)
  IN  IF id.variant = "unspecified"
      THEN {i \in bInstalled : i.base = id.base}
      ELSE {id} \cap bInstalled

\* switchVersion(text) may end in NotFoundError
switchRejected(text) ==
  switchTargets(text) = {} \/ parseIdentity(text).variant = "unspecified"

\* removeVersion(text): the install record removed (none: NotFoundError)
removeTargets(text) == {parseIdentity(text)} \cap bInstalled

\* a command may fail while the failure budget lasts
MayFail == failures < MaxFailures

\* ------------------------------------------------------------------------
\* State of the GUI
\* ------------------------------------------------------------------------
\* A control can be activated whenever it is rendered and its disabled attribute
\* is false.  A modal draws an overlay over the page, but an overlay disables
\* nothing: the controls under it still take keyboard focus and activation.
VARIABLES
  \* hooks/usePhpVersions
  installedVersions, availableVersions, activeVersion, loading, error,
  isLoadingRef,
  ld,                \* the loadData execution in flight: [pc, caller, installed, active]
  \* hooks/useTauriReady
  hasCalledOnReady,
  \* App
  installVersion,    \* the text of the version input
  \* hooks/useVersionOperations
  showThreadSafeModal, pendingInstallVersion, selectedThreadSafe,
  showVariantSelectModal, pendingSwitchVersion, availableVariants,
  showDeleteConfirmModal, pendingDeleteVersion, pendingDeleteVariants,
  isInstalling, installingVersion, installProgress,
  isSwitching, switchingVersion, switchProgress,
  isDeleting, deletingVersion, deleteProgress,
  inst,              \* the handleInstall execution in flight
  sw,                \* the handleSwitch executions in flight
  rm,                \* the handleRemove execution in flight
  \* hooks/useNotifications
  notifications,
  nextId,            \* the id the next notification gets (ids are unique)
  timers,            \* ids of listed notifications with a pending auto-dismiss
                     \* setTimeout (the timer of a dismissed one fires without effect)
  \* bookkeeping of the model
  ops,               \* user interactions so far
  typed,             \* edits of the version input so far
  history,           \* the (installed, active) pairs the backend has held
  committed,         \* what the last loadData committed, and whether a query failed
  failed             \* the failed commands whose notification was not dismissed by the user

VARIABLES
  \* hooks/useVersionOperations: download progress
  downloadProgress,  \* the state the download-progress listener writes
  download           \* the Downloader of the running installVersion: how it serves
                     \* the archive and how far it has reported

VARIABLES
  \* utils/versionUtils: a call of one of the functions
  versions,          \* the version strings passed
  returned           \* the function called and what it returned

VARIABLES
  \* components/tabs/CacheTab
  bCache,            \* the hashes of the archives in the backend's cache
  cachedFiles,       \* the hashes of the files listed
  cacheLoading,      \* the tab's loading state
  removingHash,
  clearing,
  showRemoveConfirm,
  pendingRemoveHash,
  showClearAllConfirm,
  cacheCalls,        \* the calls of loadCachedFiles, handleRemoveFile and
                     \* handleClearAll that have not returned, in the order they began
  cacheOps           \* clicks on the tab's buttons so far

VARIABLES
  \* hooks/useTauriReady (hasCalledOnReady is declared with the App state)
  tauriPresent,      \* window exposes the Tauri runtime
  mounted,           \* the component using the hook is mounted
  isReady,
  readyError,        \* the hook's error state
  attempts,
  checkPending,      \* a call of checkTauri is due: the effect's, or a timer's
  onReadyPending,    \* the timer that calls onReady is running
  onReadyCalls       \* how often onReady was invoked

VARIABLES
  \* hooks/useVersionOperations: the effect that registers the download-progress
  \* listener
  effectDeps,        \* the isInstalling the effect last ran with
  curListen,         \* listen() of the effect that ran last: "pending" or "registered"
  orphans,           \* listen() calls pending whose effect was cleaned up
  leaked,            \* listeners registered after the cleanup of their effect
  handledBy,         \* the numbers of listeners that handled an event, over the
                     \* events emitted so far
  channel            \* the download-progress events emitted and not yet handled

VARIABLES
  \* hooks/usePhpVersions: the version statuses
  versionStatuses,   \* the statuses object, as a set of [key, status]
  loadingStatuses,
  prevVersionsRef,   \* what the status effect last loaded statuses for
  batches            \* the calls of loadVersionStatuses, in the order they began

dataVars == <<installedVersions, availableVersions, activeVersion, loading, error,
              isLoadingRef, ld, committed>>
tsModalVars == <<showThreadSafeModal, pendingInstallVersion, selectedThreadSafe>>
swModalVars == <<showVariantSelectModal, pendingSwitchVersion, availableVariants>>
delModalVars == <<showDeleteConfirmModal, pendingDeleteVersion, pendingDeleteVariants>>
installVars == <<isInstalling, installingVersion, installProgress, inst>>
switchVars == <<isSwitching, switchingVersion, switchProgress, sw>>
removeVars == <<isDeleting, deletingVersion, deleteProgress, rm>>
notifVars == <<notifications, nextId, timers, failed>>
statusVars == <<versionStatuses, loadingStatuses, prevVersionsRef, batches>>
progressVars == <<downloadProgress, download>>
cacheVars == <<bCache, cachedFiles, cacheLoading, removingHash, clearing,
               showRemoveConfirm, pendingRemoveHash, showClearAllConfirm,
               cacheCalls, cacheOps>>
readyVars == <<tauriPresent, mounted, isReady, readyError, attempts, checkPending,
               onReadyPending, onReadyCalls>>
listenVars == <<effectDeps, curListen, orphans, leaked, handledBy, channel>>
sideVars == <<cacheVars, readyVars, listenVars>>
utilVars == <<versions, returned, sideVars>>
mainVars == <<bInstalled, bActive, bEnc, failures, history,
          installedVersions, availableVersions, activeVersion, loading, error,
          isLoadingRef, ld, committed, hasCalledOnReady, installVersion,
          showThreadSafeModal, pendingInstallVersion, selectedThreadSafe,
          showVariantSelectModal, pendingSwitchVersion, availableVariants,
          showDeleteConfirmModal, pendingDeleteVersion, pendingDeleteVariants,
          isInstalling, installingVersion, installProgress, inst,
          isSwitching, switchingVersion, switchProgress, sw,
          isDeleting, deletingVersion, deleteProgress, rm,
          notifications, nextId, timers, failed, ops, typed, progressVars>>
vars == <<statusVars, mainVars, utilVars>>

\* ------------------------------------------------------------------------
\* hooks/useNotifications.js
\* ------------------------------------------------------------------------
AutoDismissMs == 3000
RestartWarningMs == 6000

Msg(text, version, err) == [text |-> text, version |-> version, error |-> err]

\* showNotification without actions: the notification it builds (id apart)
showNotification(message, type, duration) ==
  LET finalDuration ==
        IF duration = Undefined
        THEN IF type = "error" \/ type = "warning" THEN 0 ELSE AutoDismissMs
        ELSE duration
  IN  [message |-> message, type |-> type, duration |-> finalDuration]

showSuccess(message, duration) == showNotification(message, "success", duration)

\* showError with the auto-dismissing default of showSuccess and showInfo
showErrorAutoDismiss(message, duration) ==
  showNotification(message, "error", IF duration = Undefined THEN AutoDismissMs ELSE duration)

showError(message, duration) ==
  showNotification(message, "error", IF duration = Undefined THEN 0 ELSE duration)

showWarning(message, duration) ==
  showNotification(message, "warning", IF duration = Undefined THEN 0 ELSE duration)

showInfo(message, duration) == showNotification(message, "info", duration)

\* the notification list after the notifications `shown` were added in order
RECURSIVE WithShown(_, _, _)
WithShown(list, id, shown) ==
  IF Len(shown) = 0 THEN list
  ELSE WithShown(Append(list, [id |-> id, message |-> shown[1].message,
                               type |-> shown[1].type, duration |-> shown[1].duration]),
                 id + 1, Tail(shown))

\* the timers started for them: setTimeout only if duration > 0
TimersOf(id, shown) == {id + i - 1 : i \in {j \in 1..Len(shown) : shown[j].duration > 0}}

\* the effect of calling the show functions `shown` in one handler step
Notify(shown) ==
  /\ notifications' = WithShown(notifications, nextId, shown)
  /\ nextId' = nextId + Len(shown)
  /\ timers' = timers \cup TimersOf(nextId, shown)

\* dismissNotification(id)
dismissed(id) == SelectSeq(notifications, LAMBDA n : n.id # id)

\* ------------------------------------------------------------------------
\* Initial state: the GUI as mounted, over a backend store read at startup
\* ------------------------------------------------------------------------
Id(base, variant) == [base |-> base, variant |-> variant]

\* persisted stores the application may start on
InitStores ==
  { [installed |-> {}, active |-> NoneId],
    [installed |-> {Id(V820, "ts"), Id(V820, "nts"), Id(V831, "ts")},
     active |-> Id(V820, "ts")] }

\* what the read-only queries show of a store
SnapshotOf(installed, active) ==
  [installed |-> formatInstalled(installed), active |-> formatActive(active)]

Snapshot == SnapshotOf(bInstalled, bActive)

NoCommit == [some |-> FALSE, installed |-> << >>, active |-> Null, queryFailed |-> FALSE,
             afterFailure |-> FALSE]

IdleLoad == [pc |-> "idle", caller |-> "none", installed |-> << >>, active |-> Null,
             queryFailed |-> FALSE, afterFailure |-> FALSE]

\* systemEmpty and alreadyListed record, for the properties, what held when
\* handleInstall began: no install record in the store; the identity to install
\* in the GUI's installed list
IdleInstall == [pc |-> "idle", version |-> Empty, threadSafeParam |-> "ts",
                wasFirstInstall |-> FALSE, viaModal |-> FALSE, installed |-> NullList,
                systemEmpty |-> FALSE, alreadyListed |-> FALSE]

\* wasActive and refreshed record, for the properties, that removeVersion removed
\* the active identity and that both queries of the refresh succeeded
IdleRemove == [pc |-> "idle", version |-> Empty, installed |-> NullList,
               wasActive |-> FALSE, refreshed |-> FALSE]

\* downloadProgress as initialised and as reset by handleInstall
NoProgress == [downloaded |-> 0, total |-> 0, speed |-> 0, percent |-> 0, isCached |-> FALSE]

\* no archive requested yet
NoDownload == [kind |-> "idle", downloaded |-> 0]

\* no function of versionUtils called yet
NoReturn == [fn |-> "none", parsed |-> << >>, compared |-> 0, grouped |-> << >>,
             sorted |-> << >>]

\* the application as mounted over one of the stores
InitOn(stores) ==
  /\ \E st \in stores : bInstalled = st.installed /\ bActive = st.active
  /\ bEnc \in {"-", "."}
  /\ failures = 0
  /\ history = {Snapshot}
  /\ installedVersions = << >>
  /\ availableVersions = << >>
  /\ activeVersion = Null
  /\ loading = FALSE
  /\ error = Null
  /\ isLoadingRef = FALSE
  /\ ld = IdleLoad
  /\ committed = NoCommit
  /\ hasCalledOnReady = FALSE
  /\ installVersion = Empty
  /\ showThreadSafeModal = FALSE
  /\ pendingInstallVersion = Null
  /\ selectedThreadSafe = TRUE
  /\ showVariantSelectModal = FALSE
  /\ pendingSwitchVersion = Null
  /\ availableVariants = << >>
  /\ showDeleteConfirmModal = FALSE
  /\ pendingDeleteVersion = Null
  /\ pendingDeleteVariants = << >>
  /\ isInstalling = FALSE
  /\ installingVersion = Null
  /\ installProgress = ""
  /\ isSwitching = FALSE
  /\ switchingVersion = Null
  /\ switchProgress = ""
  /\ isDeleting = FALSE
  /\ deletingVersion = Null
  /\ deleteProgress = ""
  /\ inst = IdleInstall
  /\ sw = << >>
  /\ rm = IdleRemove
  /\ notifications = << >>
  /\ nextId = 1
  /\ timers = {}
  /\ failed = {}
  /\ ops = 0
  /\ typed = 0
  /\ downloadProgress = NoProgress
  /\ download = NoDownload
  /\ versionStatuses = {}
  /\ loadingStatuses = FALSE
  /\ prevVersionsRef = [available |-> << >>, installed |-> << >>, active |-> Null]
  /\ batches = << >>
  /\ returned = NoReturn

\* the cache tab before it is opened
CacheTabClosed ==
  /\ bCache = {}
  /\ cachedFiles = {}
  /\ cacheLoading = TRUE
  /\ removingHash = Null
  /\ clearing = FALSE
  /\ showRemoveConfirm = FALSE
  /\ pendingRemoveHash = Null
  /\ showClearAllConfirm = FALSE
  /\ cacheCalls = << >>
  /\ cacheOps = 0

\* useTauriReady before the component is mounted
HookUnmounted ==
  /\ tauriPresent = FALSE
  /\ mounted = FALSE
  /\ isReady = FALSE
  /\ readyError = Null
  /\ attempts = 0
  /\ checkPending = FALSE
  /\ onReadyPending = FALSE
  /\ onReadyCalls = 0

\* the listener effect as it ran on mount, its listen() resolved
ListenerMounted ==
  /\ effectDeps = FALSE
  /\ curListen = "registered"
  /\ orphans = 0
  /\ leaked = 0
  /\ handledBy = {}
  /\ channel = << >>

SideInit == CacheTabClosed /\ HookUnmounted /\ ListenerMounted

Init == InitOn(InitStores) /\ versions = << >> /\ SideInit

\* ------------------------------------------------------------------------
\* hooks/usePhpVersions.js: loadData
\* ------------------------------------------------------------------------
TauriError == <<"Error: Tauri runtime is not initialized. Please restart the application.">>

\* what the caller of loadData does once it returns
AfterLoad(caller) ==
  IF caller = "refresh"
  THEN Notify(<<showInfo(Msg("Data refreshed", Empty, ""), Undefined)>>)
  ELSE UNCHANGED <<notifications, nextId, timers>>

\* loadData without the test of isLoadingRef
loadDataNoGuard(caller, tauri) ==
  IF ~tauri
  THEN /\ error' = TauriError
       /\ installedVersions' = << >>
       /\ availableVersions' = << >>
       /\ activeVersion' = Null
       /\ isLoadingRef' = FALSE
       /\ loading' = FALSE
       /\ committed' = NoCommit
       /\ UNCHANGED ld
       /\ AfterLoad(caller)
  ELSE /\ isLoadingRef' = TRUE
       /\ loading' = TRUE
       /\ error' = Null
       /\ ld' = [IdleLoad EXCEPT !.pc = "getInstallPath", !.caller = caller,
                                  !.afterFailure = (error # Null)]
       /\ committed' = NoCommit
       /\ UNCHANGED <<installedVersions, availableVersions, activeVersion>>
       /\ UNCHANGED <<notifications, nextId, timers>>

\* loadData whose catch is not followed by the finally block
loadDataNoFinally(caller, tauri) ==
  IF isLoadingRef
  THEN /\ UNCHANGED dataVars
       /\ AfterLoad(caller)
  ELSE IF ~tauri
  THEN /\ error' = TauriError
       /\ installedVersions' = << >>
       /\ availableVersions' = << >>
       /\ activeVersion' = Null
       /\ isLoadingRef' = TRUE
       /\ loading' = TRUE
       /\ committed' = NoCommit
       /\ UNCHANGED ld
       /\ AfterLoad(caller)
  ELSE /\ isLoadingRef' = TRUE
       /\ loading' = TRUE
       /\ error' = Null
       /\ ld' = [IdleLoad EXCEPT !.pc = "getInstallPath", !.caller = caller,
                                  !.afterFailure = (error # Null)]
       /\ committed' = NoCommit
       /\ UNCHANGED <<installedVersions, availableVersions, activeVersion>>
       /\ UNCHANGED <<notifications, nextId, timers>>

\* loadData() up to its first await; tauri: whether window.__TAURI_INTERNALS__ or
\* window.__TAURI__ is present; ld.afterFailure records, for the properties, that
\* the error state was set when the call began
loadData(caller, tauri) ==
  IF isLoadingRef
  THEN \* already loading: skip
       /\ UNCHANGED dataVars
       /\ AfterLoad(caller)
  ELSE IF ~tauri
  THEN \* throw, catch, finally
       /\ error' = TauriError
       /\ installedVersions' = << >>
       /\ availableVersions' = << >>
       /\ activeVersion' = Null
       /\ isLoadingRef' = FALSE
       /\ loading' = FALSE
       /\ committed' = NoCommit
       /\ UNCHANGED ld
       /\ AfterLoad(caller)
  ELSE /\ isLoadingRef' = TRUE
       /\ loading' = TRUE
       /\ error' = Null
       /\ ld' = [IdleLoad EXCEPT !.pc = "getInstallPath", !.caller = caller,
                                  !.afterFailure = (error # Null)]
       /\ committed' = NoCommit
       /\ UNCHANGED <<installedVersions, availableVersions, activeVersion>>
       /\ UNCHANGED <<notifications, nextId, timers>>

\* useTauriReady: the runtime was detected, onReady (loadData) is called once
OnReady ==
  /\ UNCHANGED <<statusVars, progressVars, utilVars>>
  /\ ~hasCalledOnReady
  /\ hasCalledOnReady' = TRUE
  /\ \E tauri \in BOOLEAN :
       /\ tauri \/ MayFail
       /\ failures' = IF tauri THEN failures ELSE failures + 1
       /\ loadData("ready", tauri)
  /\ UNCHANGED <<bInstalled, bActive, bEnc, history, installVersion, tsModalVars,
                 swModalVars, delModalVars, installVars, switchVars, removeVars,
                 failed, ops, typed>>

\* SettingsTab: the Refresh button (disabled while loading)
Refresh ==
  /\ UNCHANGED <<statusVars, progressVars, utilVars>>
  /\ ~loading
  /\ ops < MaxOps
  /\ ops' = ops + 1
  /\ UNCHANGED typed
  /\ \E tauri \in BOOLEAN :
       /\ tauri \/ MayFail
       /\ failures' = IF tauri THEN failures ELSE failures + 1
       /\ loadData("refresh", tauri)
  /\ UNCHANGED <<bInstalled, bActive, bEnc, history, hasCalledOnReady, installVersion,
                 tsModalVars, swModalVars, delModalVars, installVars, switchVars,
                 removeVars, failed>>

\* getInstallPath, getLogPath, checkPathStatus return (a failure is replaced by a
\* default; the values are not part of the model)
LoadPaths ==
  /\ UNCHANGED <<statusVars, progressVars, utilVars>>
  /\ ld.pc \in {"getInstallPath", "getLogPath", "checkPathStatus"}
  /\ ld' = [ld EXCEPT !.pc = CASE ld.pc = "getInstallPath" -> "getLogPath"
                               [] ld.pc = "getLogPath" -> "checkPathStatus"
                               [] OTHER -> "listInstalled"]
  /\ UNCHANGED <<backendVars, history, installedVersions, availableVersions,
                 activeVersion, loading, error, isLoadingRef, committed,
                 hasCalledOnReady, installVersion, tsModalVars, swModalVars,
                 delModalVars, installVars, switchVars, removeVars, notifVars, ops, typed>>

\* listInstalled returns: .catch replaces a failure by []
LoadListInstalled ==
  /\ UNCHANGED <<statusVars, progressVars, utilVars>>
  /\ ld.pc = "listInstalled"
  /\ \E ok \in BOOLEAN :
       /\ ok \/ MayFail
       /\ failures' = IF ok THEN failures ELSE failures + 1
       /\ ld' = [ld EXCEPT !.pc = "getActive",
                           !.installed = IF ok THEN listInstalled ELSE << >>,
                           !.queryFailed = ld.queryFailed \/ ~ok]
  /\ UNCHANGED <<bInstalled, bActive, bEnc, history, installedVersions,
                 availableVersions, activeVersion, loading, error, isLoadingRef,
                 committed, hasCalledOnReady, installVersion, tsModalVars, swModalVars,
                 delModalVars, installVars, switchVars, removeVars, notifVars, ops, typed>>

\* getActive returns: .catch replaces a failure by null
LoadGetActive ==
  /\ UNCHANGED <<statusVars, progressVars, utilVars>>
  /\ ld.pc = "getActive"
  /\ \E ok \in BOOLEAN :
       /\ ok \/ MayFail
       /\ failures' = IF ok THEN failures ELSE failures + 1
       /\ ld' = [ld EXCEPT !.pc = "listAvailable",
                           !.active = IF ok THEN getActive ELSE Null,
                           !.queryFailed = ld.queryFailed \/ ~ok]
  /\ UNCHANGED <<bInstalled, bActive, bEnc, history, installedVersions,
                 availableVersions, activeVersion, loading, error, isLoadingRef,
                 committed, hasCalledOnReady, installVersion, tsModalVars, swModalVars,
                 delModalVars, installVars, switchVars, removeVars, notifVars, ops, typed>>

\* listAvailable returns (.catch replaces a failure by []); the results are
\* committed, the finally block releases the guard and the loading flag
LoadListAvailable ==
  /\ UNCHANGED <<statusVars, progressVars, utilVars>>
  /\ ld.pc = "listAvailable"
  /\ \E ok \in BOOLEAN :
       /\ ok \/ MayFail
       /\ failures' = IF ok THEN failures ELSE failures + 1
       /\ availableVersions' = IF ok THEN listAvailable ELSE << >>
       /\ committed' = [some |-> TRUE, installed |-> ld.installed, active |-> ld.active,
                        queryFailed |-> ld.queryFailed \/ ~ok,
                        afterFailure |-> ld.afterFailure]
  /\ installedVersions' = ld.installed
  /\ activeVersion' = ld.active
  /\ isLoadingRef' = FALSE
  /\ loading' = FALSE
  /\ ld' = IdleLoad
  /\ AfterLoad(ld.caller)
  /\ UNCHANGED <<bInstalled, bActive, bEnc, history, error, hasCalledOnReady,
                 installVersion, tsModalVars, swModalVars, delModalVars, installVars,
                 switchVars, removeVars, failed, ops, typed>>

\* ------------------------------------------------------------------------
\* hooks/usePhpVersions.js: refreshInstalledData
\* ------------------------------------------------------------------------
\* the state refreshInstalledData commits from its two results: a null result
\* (a failed query) leaves the state as it is
refreshedInstalled(installed) ==
  IF installed # NullList THEN installed ELSE installedVersions

refreshedActive(active) ==
  IF active # Null THEN active ELSE activeVersion

\* ------------------------------------------------------------------------
\* hooks/useVersionOperations.js: install
\* ------------------------------------------------------------------------
\* installedVersions.some(v => v.startsWith(`${version}-ts`) || v === `${version}-ts`)
tsInstalled(version) ==
  \E i \in 1..Len(installedVersions) :
     \/ StartsWith(installedVersions[i], version \o HyphenTs)
     \/ installedVersions[i] = version \o HyphenTs

ntsInstalled(version) ==
  \E i \in 1..Len(installedVersions) :
     \/ StartsWith(installedVersions[i], version \o HyphenNts)
     \/ installedVersions[i] = version \o HyphenNts

\* the GUI's installed list holds (version, variant), in either encoding
Listed(version, variant) ==
  \E i \in 1..Len(installedVersions) :
     /\ parseVersion(installedVersions[i]).baseVersion = version
     /\ parseVersion(installedVersions[i]).variant = VariantText(variant)

\* handleInstall(version, threadSafe) up to its first await (installVersion issued)
handleInstall(version, threadSafe, viaModal) ==
  /\ isInstalling' = TRUE
  /\ installingVersion' = version
  /\ installProgress' = "Preparing download..."
  /\ downloadProgress' = NoProgress
  /\ download' = NoDownload
  /\ inst' = [pc |-> "installVersion", version |-> version,
              threadSafeParam |-> IF threadSafe THEN "ts" ELSE "nts",
              wasFirstInstall |-> (Len(installedVersions) = 0),
              viaModal |-> viaModal, installed |-> NullList,
              systemEmpty |-> (bInstalled = {}),
              alreadyListed |-> Listed(version, IF threadSafe THEN "ts" ELSE "nts")]

\* the version input of the Available tab (disabled while loading)
SetInstallVersion ==
  /\ UNCHANGED <<statusVars, progressVars, utilVars>>
  /\ ~loading
  /\ typed < MaxTyped
  /\ typed' = typed + 1
  /\ \E text \in BaseVersions \cup {Empty} :
       /\ text # installVersion
       /\ installVersion' = text
  /\ UNCHANGED <<backendVars, history, dataVars, hasCalledOnReady, tsModalVars,
                 swModalVars, delModalVars, installVars, switchVars, removeVars,
                 notifVars, ops>>

\* the Install button: handleInstallClick(installVersion)
InstallClick ==
  /\ UNCHANGED <<statusVars, utilVars>>
  /\ ~(isInstalling \/ installVersion = Empty \/ showThreadSafeModal)
  /\ ops < MaxOps
  /\ ops' = ops + 1
  /\ UNCHANGED typed
  /\ LET version == installVersion
         ts == tsInstalled(version)
         nts == ntsInstalled(version)
     IN  IF ts /\ ~nts
         THEN /\ handleInstall(version, FALSE, FALSE)
              /\ UNCHANGED <<tsModalVars, notifications, nextId, timers>>
         ELSE IF ~ts /\ nts
         THEN /\ handleInstall(version, TRUE, FALSE)
              /\ UNCHANGED <<tsModalVars, notifications, nextId, timers>>
         ELSE IF ~ts /\ ~nts
         THEN /\ pendingInstallVersion' = version
              /\ selectedThreadSafe' = TRUE
              /\ showThreadSafeModal' = TRUE
              /\ UNCHANGED <<installVars, progressVars, notifications, nextId, timers>>
         ELSE /\ Notify(<<showWarning(Msg("(both TS and NTS) is already installed.",
                                           version, ""), Undefined)>>)
              /\ UNCHANGED <<tsModalVars, installVars, progressVars>>
  /\ UNCHANGED <<backendVars, history, dataVars, hasCalledOnReady, installVersion,
                 swModalVars, delModalVars, switchVars, removeVars, failed>>

\* ThreadSafeModal: a radio button (disabled when that variant is installed)
ThreadSafeChange ==
  /\ UNCHANGED <<statusVars, progressVars, utilVars>>
  /\ showThreadSafeModal
  /\ \E value \in BOOLEAN :
       /\ value # selectedThreadSafe
       /\ IF value THEN ~tsInstalled(pendingInstallVersion)
                   ELSE ~ntsInstalled(pendingInstallVersion)
       /\ selectedThreadSafe' = value
  /\ UNCHANGED <<backendVars, history, dataVars, hasCalledOnReady, installVersion,
                 showThreadSafeModal, pendingInstallVersion, swModalVars, delModalVars,
                 installVars, switchVars, removeVars, notifVars, ops, typed>>

\* ThreadSafeModal: the Install button, handleConfirmInstall
ConfirmInstall ==
  /\ UNCHANGED <<statusVars, utilVars>>
  /\ showThreadSafeModal
  /\ ~(\/ isInstalling
       \/ (tsInstalled(pendingInstallVersion) /\ selectedThreadSafe)
       \/ (ntsInstalled(pendingInstallVersion) /\ ~selectedThreadSafe))
  /\ showThreadSafeModal' = FALSE
  /\ handleInstall(pendingInstallVersion, selectedThreadSafe, TRUE)
  /\ UNCHANGED <<backendVars, history, dataVars, hasCalledOnReady, installVersion,
                 pendingInstallVersion, selectedThreadSafe, swModalVars, delModalVars,
                 switchVars, removeVars, notifVars, ops, typed>>

\* ThreadSafeModal: Cancel, or a click on the overlay, handleCancelInstall
CancelInstall ==
  /\ UNCHANGED <<statusVars, progressVars, utilVars>>
  /\ showThreadSafeModal
  /\ showThreadSafeModal' = FALSE
  /\ pendingInstallVersion' = Null
  /\ UNCHANGED <<backendVars, history, dataVars, hasCalledOnReady, installVersion,
                 selectedThreadSafe, swModalVars, delModalVars, installVars, switchVars,
                 removeVars, notifVars, ops, typed>>

\* handleInstall: catch and finally, then the caller's catch
\* a catch of handleInstall that no finally block follows
InstallFailedNoFinally(err) ==
  /\ Notify(<<showError(Msg("Failed to install PHP", inst.version, err), Undefined)>>)
  /\ failed' = failed \cup {[text |-> "Failed to install PHP", error |-> err]}
  /\ isInstalling' = isInstalling
  /\ installingVersion' = installingVersion
  /\ installProgress' = "Installation failed"
  /\ pendingInstallVersion' = IF inst.viaModal THEN Null ELSE pendingInstallVersion
  /\ inst' = IdleInstall

InstallFailed(err) ==
  /\ Notify(<<showError(Msg("Failed to install PHP", inst.version, err), Undefined)>>)
  /\ failed' = failed \cup {[text |-> "Failed to install PHP", error |-> err]}
  /\ isInstalling' = FALSE
  /\ installingVersion' = Null
  /\ installProgress' = ""
  /\ pendingInstallVersion' = IF inst.viaModal THEN Null ELSE pendingInstallVersion
  /\ inst' = IdleInstall

\* installVersion returns
InstallVersionDone ==
  /\ UNCHANGED <<statusVars, progressVars, utilVars>>
  /\ inst.pc = "installVersion"
  /\ \/ /\ bInstalled' = bInstalled \cup {installTarget(inst.version, inst.threadSafeParam)}
        /\ history' = history \cup
             {SnapshotOf(bInstalled \cup {installTarget(inst.version, inst.threadSafeParam)},
                         bActive)}
        /\ installProgress' = "Installing..."
        /\ inst' = [inst EXCEPT !.pc = "refresh1.listInstalled"]
        /\ UNCHANGED <<failures, isInstalling, installingVersion, pendingInstallVersion,
                       notifVars>>
     \/ /\ MayFail
        /\ failures' = failures + 1
        /\ InstallFailed("TransferError")
        /\ UNCHANGED <<bInstalled, history>>
  /\ UNCHANGED <<bActive, bEnc, dataVars, hasCalledOnReady, installVersion,
                 showThreadSafeModal, selectedThreadSafe, swModalVars, delModalVars,
                 switchVars, removeVars, ops, typed>>

\* refreshInstalledData inside handleInstall: listInstalled returns
InstallRefreshList ==
  /\ UNCHANGED <<statusVars, progressVars, utilVars>>
  /\ inst.pc \in {"refresh1.listInstalled", "refresh2.listInstalled"}
  /\ \E ok \in BOOLEAN :
       /\ ok \/ MayFail
       /\ failures' = IF ok THEN failures ELSE failures + 1
       /\ inst' = [inst EXCEPT
                     !.pc = IF inst.pc = "refresh1.listInstalled"
                            THEN "refresh1.getActive" ELSE "refresh2.getActive",
                     !.installed = IF ok THEN listInstalled ELSE NullList]
  /\ UNCHANGED <<bInstalled, bActive, bEnc, history, dataVars, hasCalledOnReady,
                 installVersion, tsModalVars, swModalVars, delModalVars, isInstalling,
                 installingVersion, installProgress, switchVars, removeVars, notifVars,
                 ops, typed>>

\* refreshInstalledData inside handleInstall: getActive returns, the results are
\* committed; handleInstall goes on to switchVersion (first install) or completes
InstallRefreshActive ==
  /\ UNCHANGED <<statusVars, progressVars, utilVars>>
  /\ inst.pc \in {"refresh1.getActive", "refresh2.getActive"}
  /\ \E ok \in BOOLEAN :
       /\ ok \/ MayFail
       /\ failures' = IF ok THEN failures ELSE failures + 1
       /\ installedVersions' = refreshedInstalled(inst.installed)
       /\ activeVersion' = refreshedActive(IF ok THEN getActive ELSE Null)
  /\ IF inst.pc = "refresh1.getActive" /\ inst.wasFirstInstall
     THEN /\ installProgress' = "Activating version..."
          /\ inst' = [inst EXCEPT !.pc = "switchVersion", !.installed = NullList]
          /\ UNCHANGED <<notifications, nextId, timers>>
     ELSE /\ installProgress' = "Installation complete!"
          /\ inst' = [inst EXCEPT !.pc = "done", !.installed = NullList]
          /\ Notify(<<showSuccess(Msg("installed successfully", inst.version, ""),
                                  Undefined)>>)
  /\ UNCHANGED <<bInstalled, bActive, bEnc, history, availableVersions, loading, error,
                 isLoadingRef, ld, committed, hasCalledOnReady, installVersion,
                 tsModalVars, swModalVars, delModalVars, isInstalling, installingVersion,
                 switchVars, removeVars, failed, ops, typed>>

\* switchVersion(version) of the first install returns
InstallSwitchDone ==
  /\ UNCHANGED <<statusVars, progressVars, utilVars>>
  /\ inst.pc = "switchVersion"
  /\ \/ \E target \in switchTargets(inst.version) :
          /\ bActive' = target
          /\ history' = history \cup {SnapshotOf(bInstalled, target)}
          /\ inst' = [inst EXCEPT !.pc = "refresh2.listInstalled"]
          /\ UNCHANGED <<failures, isInstalling, installingVersion, installProgress,
                         pendingInstallVersion, notifVars>>
     \/ /\ switchRejected(inst.version)
        /\ InstallFailed("NotFoundError")
        /\ UNCHANGED <<bActive, history, failures>>
     \/ \E target \in switchTargets(inst.version) :
          /\ MayFail
          /\ failures' = failures + 1
          /\ bActive' = target
          /\ history' = history \cup {SnapshotOf(bInstalled, target)}
          /\ InstallFailed("PartialActivationError")
  /\ UNCHANGED <<bInstalled, bEnc, dataVars, hasCalledOnReady, installVersion,
                 showThreadSafeModal, selectedThreadSafe, swModalVars, delModalVars,
                 switchVars, removeVars, ops, typed>>

\* the 500 ms pause ends; finally; the caller clears pendingInstallVersion
InstallDone ==
  /\ UNCHANGED <<statusVars, progressVars, utilVars>>
  /\ inst.pc = "done"
  /\ isInstalling' = FALSE
  /\ installingVersion' = Null
  /\ installProgress' = ""
  /\ pendingInstallVersion' = IF inst.viaModal THEN Null ELSE pendingInstallVersion
  /\ inst' = IdleInstall
  /\ UNCHANGED <<backendVars, history, dataVars, hasCalledOnReady, installVersion,
                 showThreadSafeModal, selectedThreadSafe, swModalVars, delModalVars,
                 switchVars, removeVars, notifVars, ops, typed>>

\* ------------------------------------------------------------------------
\* hooks/useVersionOperations.js: switch
\* ------------------------------------------------------------------------
\* Array.prototype.find with the tests of handleSwitchClick (Null: undefined)
findTS(variants) ==
  IF \E i \in 1..Len(variants) : isTS(variants[i])
  THEN variants[CHOOSE i \in 1..Len(variants) :
                  isTS(variants[i]) /\ \A j \in 1..(i-1) : ~isTS(variants[j])]
  ELSE Null

findNTS(variants) ==
  IF \E i \in 1..Len(variants) : isNTS(variants[i])
  THEN variants[CHOOSE i \in 1..Len(variants) :
                  isNTS(variants[i]) /\ \A j \in 1..(i-1) : ~isNTS(variants[j])]
  ELSE Null

RemoveAt(seq, i) == SubSeq(seq, 1, i - 1) \o SubSeq(seq, i + 1, Len(seq))

\* the controls of the Installed tab: rendered when not loading, one card per
\* base version, disabled while an operation runs
CardEnabled(baseVersion) ==
  /\ ~loading
  /\ \E i \in 1..Len(groupKeys(installedVersions)) :
        groupKeys(installedVersions)[i] = baseVersion
  /\ ~(isInstalling \/ isSwitching \/ isDeleting)

\* handleSwitch(version) up to its first await (switchVersion issued)
handleSwitch(version, viaModal) ==
  /\ isSwitching' = TRUE
  /\ switchingVersion' = version
  /\ switchProgress' = "Switching PHP version..."
  /\ sw' = Append(sw, [pc |-> "switchVersion", version |-> version,
                       viaModal |-> viaModal, installed |-> NullList])

\* VersionCard: the Switch button, handleSwitchClick(baseVersion, variants)
SwitchClick ==
  /\ UNCHANGED <<statusVars, progressVars, utilVars>>
  /\ ops < MaxOps
  /\ ops' = ops + 1
  /\ UNCHANGED typed
  /\ \E baseVersion \in BaseVersions :
       /\ CardEnabled(baseVersion)
       /\ LET variants == groupVariants(installedVersions, baseVersion)
              tsVariant == findTS(variants)
              ntsVariant == findNTS(variants)
          IN  IF tsVariant # Null /\ ntsVariant # Null
              THEN /\ pendingSwitchVersion' = baseVersion
                   /\ availableVariants' = <<tsVariant, ntsVariant>>
                   /\ showVariantSelectModal' = TRUE
                   /\ UNCHANGED switchVars
              ELSE /\ handleSwitch(IF tsVariant # Null THEN tsVariant
                                   ELSE IF ntsVariant # Null THEN ntsVariant
                                   ELSE variants[1], FALSE)
                   /\ UNCHANGED swModalVars
  /\ UNCHANGED <<backendVars, history, dataVars, hasCalledOnReady, installVersion,
                 tsModalVars, delModalVars, installVars, removeVars, notifVars>>

\* VariantSelectModal: a variant is clicked, handleConfirmSwitch(variant)
ConfirmSwitch ==
  /\ UNCHANGED <<statusVars, progressVars, utilVars>>
  /\ showVariantSelectModal
  /\ \E i \in 1..Len(availableVariants) :
       /\ showVariantSelectModal' = FALSE
       /\ handleSwitch(availableVariants[i], TRUE)
  /\ UNCHANGED <<backendVars, history, dataVars, hasCalledOnReady, installVersion,
                 tsModalVars, pendingSwitchVersion, availableVariants, delModalVars,
                 installVars, removeVars, notifVars, ops, typed>>

\* VariantSelectModal: Cancel, or a click on the overlay, handleCancelSwitch
CancelSwitch ==
  /\ UNCHANGED <<statusVars, progressVars, utilVars>>
  /\ showVariantSelectModal
  /\ showVariantSelectModal' = FALSE
  /\ pendingSwitchVersion' = Null
  /\ availableVariants' = << >>
  /\ UNCHANGED <<backendVars, history, dataVars, hasCalledOnReady, installVersion,
                 tsModalVars, delModalVars, installVars, switchVars, removeVars,
                 notifVars, ops, typed>>

\* handleSwitch: catch and finally (handleConfirmSwitch has no catch)
SwitchFailed(i, err) ==
  /\ Notify(<<showError(Msg("Failed to switch version", Empty, err), Undefined)>>)
  /\ failed' = failed \cup {[text |-> "Failed to switch version", error |-> err]}
  /\ isSwitching' = FALSE
  /\ switchingVersion' = Null
  /\ switchProgress' = ""
  /\ sw' = RemoveAt(sw, i)

\* switchVersion returns
SwitchVersionDone ==
  \E i \in 1..Len(sw) :
    /\ UNCHANGED <<statusVars, progressVars, utilVars>>
    /\ sw[i].pc = "switchVersion"
    /\ \/ \E target \in switchTargets(sw[i].version) :
            /\ bActive' = target
            /\ history' = history \cup {SnapshotOf(bInstalled, target)}
            /\ switchProgress' = "Version switched successfully!"
            /\ sw' = [sw EXCEPT ![i].pc = "refresh.listInstalled"]
            /\ UNCHANGED <<failures, isSwitching, switchingVersion, notifVars>>
       \/ /\ switchRejected(sw[i].version)
          /\ SwitchFailed(i, "NotFoundError")
          /\ UNCHANGED <<bActive, history, failures>>
       \/ \E target \in switchTargets(sw[i].version) :
            /\ MayFail
            /\ failures' = failures + 1
            /\ bActive' = target
            /\ history' = history \cup {SnapshotOf(bInstalled, target)}
            /\ SwitchFailed(i, "PartialActivationError")
    /\ UNCHANGED <<bInstalled, bEnc, dataVars, hasCalledOnReady, installVersion,
                   tsModalVars, swModalVars, delModalVars, installVars, removeVars, ops, typed>>

\* refreshInstalledData inside handleSwitch: listInstalled returns
SwitchRefreshList ==
  \E i \in 1..Len(sw) :
    /\ UNCHANGED <<statusVars, progressVars, utilVars>>
    /\ sw[i].pc = "refresh.listInstalled"
    /\ \E ok \in BOOLEAN :
         /\ ok \/ MayFail
         /\ failures' = IF ok THEN failures ELSE failures + 1
         /\ sw' = [sw EXCEPT ![i].pc = "refresh.getActive",
                             ![i].installed = IF ok THEN listInstalled ELSE NullList]
    /\ UNCHANGED <<bInstalled, bActive, bEnc, history, dataVars, hasCalledOnReady,
                   installVersion, tsModalVars, swModalVars, delModalVars, installVars,
                   isSwitching, switchingVersion, switchProgress, removeVars, notifVars,
                   ops, typed>>

\* refreshInstalledData inside handleSwitch: getActive returns, the results are
\* committed, the success and the restart-terminal notifications are shown
SwitchRefreshActive ==
  \E i \in 1..Len(sw) :
    /\ UNCHANGED <<statusVars, progressVars, utilVars>>
    /\ sw[i].pc = "refresh.getActive"
    /\ \E ok \in BOOLEAN :
         /\ ok \/ MayFail
         /\ failures' = IF ok THEN failures ELSE failures + 1
         /\ installedVersions' = refreshedInstalled(sw[i].installed)
         /\ activeVersion' = refreshedActive(IF ok THEN getActive ELSE Null)
    /\ sw' = [sw EXCEPT ![i].pc = "done", ![i].installed = NullList]
    /\ Notify(<<showSuccess(Msg("Switched to PHP", sw[i].version, ""), Undefined),
                showWarning(Msg("Please restart your terminal", Empty, ""),
                            RestartWarningMs)>>)
    /\ UNCHANGED <<bInstalled, bActive, bEnc, history, availableVersions, loading,
                   error, isLoadingRef, ld, committed, hasCalledOnReady, installVersion,
                   tsModalVars, swModalVars, delModalVars, installVars, isSwitching,
                   switchingVersion, switchProgress, removeVars, failed, ops, typed>>

\* the 500 ms pause ends; finally; handleConfirmSwitch clears its pending state
SwitchDone ==
  \E i \in 1..Len(sw) :
    /\ UNCHANGED <<statusVars, progressVars, utilVars>>
    /\ sw[i].pc = "done"
    /\ isSwitching' = FALSE
    /\ switchingVersion' = Null
    /\ switchProgress' = ""
    /\ pendingSwitchVersion' = IF sw[i].viaModal THEN Null ELSE pendingSwitchVersion
    /\ availableVariants' = IF sw[i].viaModal THEN << >> ELSE availableVariants
    /\ sw' = RemoveAt(sw, i)
    /\ UNCHANGED <<backendVars, history, dataVars, hasCalledOnReady, installVersion,
                   tsModalVars, showVariantSelectModal, delModalVars, installVars,
                   removeVars, notifVars, ops, typed>>

\* ------------------------------------------------------------------------
\* hooks/useVersionOperations.js: remove
\* ------------------------------------------------------------------------
\* the display name handleRemove derives from the version: base version and label
removeDisplay(version) ==
  IF Includes(version, HyphenTs) \/ Includes(version, HyphenNts)
  THEN LET parts == Split(version, "-")
           variant == IF Len(parts) >= 2 THEN parts[2] ELSE Empty
       IN  [baseVersion |-> parts[1],
            variant |-> IF variant = <<"t", "s">> THEN "TS"
                        ELSE IF variant = <<"n", "t", "s">> THEN "NTS" ELSE ""]
  ELSE IF EndsWith(version, DotTs) \/ EndsWith(version, DotNts)
  THEN LET beforeLastDot == SubSeq(version, 1, LastIndexOf(version, ".") - 1)
       IN  [baseVersion |-> Join(Slice3(Split(beforeLastDot, ".")), "."),
            variant |-> IF EndsWith(version, DotTs) THEN "TS" ELSE "NTS"]
  ELSE [baseVersion |-> Join(Slice3(Split(version, ".")), "."), variant |-> ""]

\* VersionCard: the Remove button, handleRemoveClick(baseVersion, variants)
RemoveClick ==
  /\ UNCHANGED <<statusVars, progressVars, utilVars>>
  /\ ops < MaxOps
  /\ ops' = ops + 1
  /\ UNCHANGED typed
  /\ \E baseVersion \in BaseVersions :
       /\ CardEnabled(baseVersion)
       /\ pendingDeleteVersion' = baseVersion
       /\ pendingDeleteVariants' = groupVariants(installedVersions, baseVersion)
       /\ showDeleteConfirmModal' = TRUE
  /\ UNCHANGED <<backendVars, history, dataVars, hasCalledOnReady, installVersion,
                 tsModalVars, swModalVars, installVars, switchVars, removeVars,
                 notifVars>>

\* DeleteConfirmModal: a variant is clicked, handleConfirmDelete(variant), and
\* handleRemove up to its first await (the 300 ms pause)
ConfirmDelete ==
  /\ UNCHANGED <<statusVars, progressVars, utilVars>>
  /\ showDeleteConfirmModal
  /\ \E i \in 1..Len(pendingDeleteVariants) :
       /\ showDeleteConfirmModal' = FALSE
       /\ isDeleting' = TRUE
       /\ deletingVersion' = pendingDeleteVariants[i]
       /\ deleteProgress' = "Preparing to remove..."
       /\ rm' = [IdleRemove EXCEPT !.pc = "preparing",
                                    !.version = pendingDeleteVariants[i]]
  /\ UNCHANGED <<backendVars, history, dataVars, hasCalledOnReady, installVersion,
                 tsModalVars, swModalVars, pendingDeleteVersion, pendingDeleteVariants,
                 installVars, switchVars, notifVars, ops, typed>>

\* DeleteConfirmModal: Cancel, or a click on the overlay, handleCancelDelete
CancelDelete ==
  /\ UNCHANGED <<statusVars, progressVars, utilVars>>
  /\ showDeleteConfirmModal
  /\ showDeleteConfirmModal' = FALSE
  /\ pendingDeleteVersion' = Null
  /\ pendingDeleteVariants' = << >>
  /\ UNCHANGED <<backendVars, history, dataVars, hasCalledOnReady, installVersion,
                 tsModalVars, swModalVars, installVars, switchVars, removeVars,
                 notifVars, ops, typed>>

\* the 300 ms pause ends: removeVersion is issued
RemoveIssue ==
  /\ UNCHANGED <<statusVars, progressVars, utilVars>>
  /\ rm.pc = "preparing"
  /\ deleteProgress' = "Removing PHP..."
  /\ rm' = [rm EXCEPT !.pc = "removeVersion"]
  /\ UNCHANGED <<backendVars, history, dataVars, hasCalledOnReady, installVersion,
                 tsModalVars, swModalVars, delModalVars, installVars, switchVars,
                 isDeleting, deletingVersion, notifVars, ops, typed>>

\* handleRemove: catch and finally (handleConfirmDelete has no catch)
RemoveFailed(err) ==
  /\ Notify(<<showError(Msg("Failed to remove PHP", removeDisplay(rm.version).baseVersion,
                            err), Undefined)>>)
  /\ failed' = failed \cup {[text |-> "Failed to remove PHP", error |-> err]}
  /\ isDeleting' = FALSE
  /\ deletingVersion' = Null
  /\ deleteProgress' = ""
  /\ rm' = IdleRemove

\* removeVersion returns
RemoveVersionDone ==
  /\ UNCHANGED <<statusVars, progressVars, utilVars>>
  /\ rm.pc = "removeVersion"
  /\ \/ \E target \in removeTargets(rm.version) :
          /\ bInstalled' = bInstalled \ {target}
          /\ bActive' = IF bActive = target THEN NoneId ELSE bActive
          /\ history' = history \cup
               {SnapshotOf(bInstalled \ {target},
                           IF bActive = target THEN NoneId ELSE bActive)}
          /\ deleteProgress' = "Cleaning up files..."
          /\ rm' = [rm EXCEPT !.pc = "cleanup", !.wasActive = (bActive = target)]
          /\ UNCHANGED <<failures, isDeleting, deletingVersion, notifVars>>
     \/ /\ removeTargets(rm.version) = {}
        /\ RemoveFailed("NotFoundError")
        /\ UNCHANGED <<bInstalled, bActive, history, failures>>
     \/ /\ removeTargets(rm.version) # {}
        /\ MayFail
        /\ failures' = failures + 1
        /\ RemoveFailed("LockedResourceError")
        /\ UNCHANGED <<bInstalled, bActive, history>>
  /\ UNCHANGED <<bEnc, dataVars, hasCalledOnReady, installVersion, tsModalVars,
                 swModalVars, delModalVars, installVars, switchVars, ops, typed>>

\* the 200 ms pause ends: refreshInstalledData is called
RemoveCleanup ==
  /\ UNCHANGED <<statusVars, progressVars, utilVars>>
  /\ rm.pc = "cleanup"
  /\ deleteProgress' = "Removal complete!"
  /\ rm' = [rm EXCEPT !.pc = "refresh.listInstalled"]
  /\ UNCHANGED <<backendVars, history, dataVars, hasCalledOnReady, installVersion,
                 tsModalVars, swModalVars, delModalVars, installVars, switchVars,
                 isDeleting, deletingVersion, notifVars, ops, typed>>

\* refreshInstalledData inside handleRemove: listInstalled returns
RemoveRefreshList ==
  /\ UNCHANGED <<statusVars, progressVars, utilVars>>
  /\ rm.pc = "refresh.listInstalled"
  /\ \E ok \in BOOLEAN :
       /\ ok \/ MayFail
       /\ failures' = IF ok THEN failures ELSE failures + 1
       /\ rm' = [rm EXCEPT !.pc = "refresh.getActive",
                           !.installed = IF ok THEN listInstalled ELSE NullList,
                           !.refreshed = ok]
  /\ UNCHANGED <<bInstalled, bActive, bEnc, history, dataVars, hasCalledOnReady,
                 installVersion, tsModalVars, swModalVars, delModalVars, installVars,
                 switchVars, isDeleting, deletingVersion, deleteProgress, notifVars, ops, typed>>

\* refreshInstalledData inside handleRemove: getActive returns, the results are
\* committed, the success notification is shown
RemoveRefreshActive ==
  /\ UNCHANGED <<statusVars, progressVars, utilVars>>
  /\ rm.pc = "refresh.getActive"
  /\ \E ok \in BOOLEAN :
       /\ ok \/ MayFail
       /\ failures' = IF ok THEN failures ELSE failures + 1
       /\ installedVersions' = refreshedInstalled(rm.installed)
       /\ activeVersion' = refreshedActive(IF ok THEN getActive ELSE Null)
       /\ rm' = [rm EXCEPT !.pc = "done", !.installed = NullList,
                           !.refreshed = rm.refreshed /\ ok]
  /\ Notify(<<showSuccess(Msg("removed successfully",
                              removeDisplay(rm.version).baseVersion, ""), Undefined)>>)
  /\ UNCHANGED <<bInstalled, bActive, bEnc, history, availableVersions, loading, error,
                 isLoadingRef, ld, committed, hasCalledOnReady, installVersion,
                 tsModalVars, swModalVars, delModalVars, installVars, switchVars,
                 isDeleting, deletingVersion, deleteProgress, failed, ops, typed>>

\* the 500 ms pause ends; finally; handleConfirmDelete clears its pending state
RemoveDone ==
  /\ UNCHANGED <<statusVars, progressVars, utilVars>>
  /\ rm.pc = "done"
  /\ isDeleting' = FALSE
  /\ deletingVersion' = Null
  /\ deleteProgress' = ""
  /\ pendingDeleteVersion' = Null
  /\ pendingDeleteVariants' = << >>
  /\ rm' = IdleRemove
  /\ UNCHANGED <<backendVars, history, dataVars, hasCalledOnReady, installVersion,
                 tsModalVars, swModalVars, showDeleteConfirmModal, installVars,
                 switchVars, notifVars, ops, typed>>

\* ------------------------------------------------------------------------
\* Notification: the dismiss button, and the auto-dismiss timer
\* ------------------------------------------------------------------------
\* the user dismisses a notification
Dismiss ==
  /\ UNCHANGED <<statusVars, progressVars, utilVars>>
  /\ \E i \in 1..Len(notifications) :
       /\ notifications' = dismissed(notifications[i].id)
       /\ timers' = timers \ {notifications[i].id}
       /\ failed' = IF notifications[i].type = "error"
                    THEN failed \ {[text |-> notifications[i].message.text,
                                     error |-> notifications[i].message.error]}
                    ELSE failed
  /\ UNCHANGED <<backendVars, history, dataVars, hasCalledOnReady, installVersion,
                 tsModalVars, swModalVars, delModalVars, installVars, switchVars,
                 removeVars, nextId, ops, typed>>

\* the setTimeout of showNotification fires: dismissNotification(id)
TimerFire ==
  /\ UNCHANGED <<statusVars, progressVars, utilVars>>
  /\ \E id \in timers :
       /\ notifications' = dismissed(id)
       /\ timers' = timers \ {id}
  /\ UNCHANGED <<backendVars, history, dataVars, hasCalledOnReady, installVersion,
                 tsModalVars, swModalVars, delModalVars, installVars, switchVars,
                 removeVars, nextId, failed, ops, typed>>

\* ------------------------------------------------------------------------
\* The GUI over the backend
\* ------------------------------------------------------------------------
Next ==
  \/ OnReady \/ Refresh \/ LoadPaths \/ LoadListInstalled \/ LoadGetActive
  \/ LoadListAvailable
  \/ SetInstallVersion \/ InstallClick \/ ThreadSafeChange \/ ConfirmInstall
  \/ CancelInstall \/ InstallVersionDone \/ InstallRefreshList \/ InstallRefreshActive
  \/ InstallSwitchDone \/ InstallDone
  \/ SwitchClick \/ ConfirmSwitch \/ CancelSwitch \/ SwitchVersionDone
  \/ SwitchRefreshList \/ SwitchRefreshActive \/ SwitchDone
  \/ RemoveClick \/ ConfirmDelete \/ CancelDelete \/ RemoveIssue \/ RemoveVersionDone
  \/ RemoveCleanup \/ RemoveRefreshList \/ RemoveRefreshActive \/ RemoveDone
  \/ Dismiss \/ TimerFire

Spec == Init /\ [][Next]_vars

\* the three operations alone: the handlers of useVersionOperations and the
\* controls that start them
NextOps ==
  \/ SetInstallVersion \/ InstallClick \/ ThreadSafeChange \/ ConfirmInstall
  \/ CancelInstall \/ InstallVersionDone \/ InstallRefreshList \/ InstallRefreshActive
  \/ InstallSwitchDone \/ InstallDone
  \/ SwitchClick \/ ConfirmSwitch \/ CancelSwitch \/ SwitchVersionDone
  \/ SwitchRefreshList \/ SwitchRefreshActive \/ SwitchDone
  \/ RemoveClick \/ ConfirmDelete \/ CancelDelete \/ RemoveIssue \/ RemoveVersionDone
  \/ RemoveCleanup \/ RemoveRefreshList \/ RemoveRefreshActive \/ RemoveDone

\* a step of a running handler: a backend command or a pause it awaits returns
HandlerStep ==
  \/ InstallVersionDone \/ InstallRefreshList \/ InstallRefreshActive
  \/ InstallSwitchDone \/ InstallDone
  \/ SwitchVersionDone \/ SwitchRefreshList \/ SwitchRefreshActive \/ SwitchDone
  \/ RemoveIssue \/ RemoveVersionDone \/ RemoveCleanup \/ RemoveRefreshList
  \/ RemoveRefreshActive \/ RemoveDone

\* a handler is running; exactly then HandlerStep is enabled
HandlerBusy == inst.pc # "idle" \/ Len(sw) > 0 \/ rm.pc # "idle"

\* whatever a handler awaits returns: weak fairness of HandlerStep, written with
\* HandlerBusy for ENABLED <<HandlerStep>>_vars
HandlersProceed == []<>(~HandlerBusy) \/ []<><<HandlerStep>>_vars

SpecOps == Init /\ [][NextOps]_vars /\ HandlersProceed

\* ------------------------------------------------------------------------
\* hooks/useVersionOperations.js: the download-progress listener
\* ------------------------------------------------------------------------
ProgressEvent(downloaded, total, speed) ==
  [downloaded |-> downloaded, total |-> total, speed_mbps |-> speed,
   percent |-> (100 * downloaded) \div total]

\* Downloader, cache hit: the one event of an archive served from the ContentCache
cachedEvent == ProgressEvent(ArchiveUnits, ArchiveUnits, 0)

\* Downloader, streaming: the events that may follow `downloaded` reported units; the
\* instantaneous speed is zero or not
streamedEvents(downloaded) ==
  {ProgressEvent(d, ArchiveUnits, speed) : d \in downloaded..ArchiveUnits, speed \in {0, 1}}

\* the listener's test for an archive served from the cache
isCached(payload) ==
  /\ payload.speed_mbps = 0
  /\ payload.percent = 100
  /\ payload.total > 0
  /\ payload.downloaded = payload.total

\* the progress text the listener leaves
listenerProgress(payload) ==
  IF payload.total > 0 /\ isCached(payload) THEN "Using cached PHP archive..."
  ELSE IF payload.total > 0 /\ payload.downloaded < payload.total
  THEN "Downloading PHP archive..."
  ELSE installProgress

\* the download-progress listener on one event
onDownloadProgress(payload) ==
  /\ installProgress' = listenerProgress(payload)
  /\ downloadProgress' = [downloaded |-> payload.downloaded, total |-> payload.total,
                          speed |-> payload.speed_mbps, percent |-> payload.percent,
                          isCached |-> isCached(payload)]

\* the running installVersion emits a download-progress event and the listener
\* receives it
DownloadProgress ==
  /\ inst.pc = "installVersion"
  /\ \/ /\ download.kind = "idle"
        /\ download' = [kind |-> "cached", downloaded |-> ArchiveUnits]
        /\ onDownloadProgress(cachedEvent)
     \/ /\ download.kind \in {"idle", "streamed"}
        /\ download.downloaded < ArchiveUnits
        /\ \E payload \in streamedEvents(download.downloaded) :
             /\ download.kind = "streamed" => payload.downloaded > download.downloaded
             /\ download' = [kind |-> "streamed", downloaded |-> payload.downloaded]
             /\ onDownloadProgress(payload)
  /\ UNCHANGED <<statusVars, utilVars, backendVars, history, dataVars, hasCalledOnReady,
                 installVersion, tsModalVars, swModalVars, delModalVars, isInstalling,
                 installingVersion, inst, switchVars, removeVars, notifVars, ops, typed>>

\* the install flow alone, with the progress events of its downloads
NextInstall ==
  \/ SetInstallVersion \/ InstallClick \/ ThreadSafeChange \/ ConfirmInstall
  \/ CancelInstall \/ InstallVersionDone \/ InstallRefreshList \/ InstallRefreshActive
  \/ InstallSwitchDone \/ InstallDone
  \/ DownloadProgress

SpecInstall == Init /\ [][NextInstall]_vars

\* ------------------------------------------------------------------------
\* hooks/useVersionOperations.js: the effect that registers the listener
\* ------------------------------------------------------------------------
\* what the listener effect and the event system leave alone
notTheListener ==
  <<versions, returned, cacheVars, readyVars, statusVars, backendVars, history, dataVars,
    hasCalledOnReady, installVersion, tsModalVars, swModalVars, delModalVars,
    isInstalling, installingVersion, inst, switchVars, removeVars, notifVars, ops, typed>>

\* the effect of the last render has run
EffectsFlushed == effectDeps = isInstalling

\* isInstalling changed: the cleanup of the effect that ran last, which calls
\* unlistenFn only if its listen() has resolved, and then setupListener()
ListenerEffect ==
  /\ ~EffectsFlushed
  /\ effectDeps' = isInstalling
  /\ orphans' = IF curListen = "pending" THEN orphans + 1 ELSE orphans
  /\ curListen' = "pending"
  /\ UNCHANGED <<leaked, handledBy, channel, progressVars, installProgress>>
  /\ UNCHANGED notTheListener

\* await listen(...) of the effect that ran last resolves: the listener is registered
ListenResolved ==
  /\ curListen = "pending"
  /\ curListen' = "registered"
  /\ UNCHANGED <<effectDeps, orphans, leaked, handledBy, channel, progressVars,
                 installProgress>>
  /\ UNCHANGED notTheListener

\* await listen(...) resolves after the cleanup of its effect: unlistenFn is
\* assigned, and nothing calls it any more
OrphanListenResolved ==
  /\ orphans > 0
  /\ orphans' = orphans - 1
  /\ leaked' = leaked + 1
  /\ UNCHANGED <<effectDeps, curListen, handledBy, channel, progressVars,
                 installProgress>>
  /\ UNCHANGED notTheListener

\* the listeners registered for download-progress
listenersRegistered == (IF curListen = "registered" THEN 1 ELSE 0) + leaked

\* the event system hands an event to every registered listener
deliver(payload) ==
  /\ handledBy' = handledBy \cup {listenersRegistered}
  /\ IF listenersRegistered > 0
     THEN onDownloadProgress(payload)
     ELSE UNCHANGED <<installProgress, downloadProgress>>

\* the running installVersion emits a download-progress event
EmitDownloadProgress ==
  /\ inst.pc = "installVersion"
  /\ \/ /\ download.kind = "idle"
        /\ download' = [kind |-> "cached", downloaded |-> ArchiveUnits]
        /\ deliver(cachedEvent)
     \/ /\ download.kind \in {"idle", "streamed"}
        /\ download.downloaded < ArchiveUnits
        /\ \E payload \in streamedEvents(download.downloaded) :
             /\ download.kind = "streamed" => payload.downloaded > download.downloaded
             /\ download' = [kind |-> "streamed", downloaded |-> payload.downloaded]
             /\ deliver(payload)
  /\ UNCHANGED <<effectDeps, curListen, orphans, leaked, channel>>
  /\ UNCHANGED notTheListener

\* a step of the install flow; a render starts once the effects of the last have run
InstallStep ==
  /\ EffectsFlushed
  /\ \/ SetInstallVersion \/ InstallClick \/ ThreadSafeChange \/ ConfirmInstall
     \/ CancelInstall \/ InstallVersionDone \/ InstallRefreshList \/ InstallRefreshActive
     \/ InstallSwitchDone \/ InstallDone

NextListen ==
  \/ InstallStep
  \/ ListenerEffect \/ ListenResolved \/ OrphanListenResolved
  \/ EmitDownloadProgress

\* the install flow over an empty store
InitListen ==
  /\ InitOn({[installed |-> {}, active |-> NoneId]})
  /\ bEnc = "-"
  /\ versions = << >>
  /\ SideInit

SpecListen == InitListen /\ [][NextListen]_vars

\* ------------------------------------------------------------------------
\* The download-progress events on their way to the listener: installVersion does
\* not wait for the listener to handle an event it emitted
\* ------------------------------------------------------------------------
\* the running installVersion emits a download-progress event
EmitToChannel ==
  /\ inst.pc = "installVersion"
  /\ Len(channel) < MaxPending
  /\ \/ /\ download.kind = "idle"
        /\ download' = [kind |-> "cached", downloaded |-> ArchiveUnits]
        /\ channel' = Append(channel, cachedEvent)
     \/ /\ download.kind \in {"idle", "streamed"}
        /\ download.downloaded < ArchiveUnits
        /\ \E payload \in streamedEvents(download.downloaded) :
             /\ download.kind = "streamed" => payload.downloaded > download.downloaded
             /\ download' = [kind |-> "streamed", downloaded |-> payload.downloaded]
             /\ channel' = Append(channel, payload)
  /\ UNCHANGED <<effectDeps, curListen, orphans, leaked, handledBy, downloadProgress,
                 installProgress>>
  /\ UNCHANGED notTheListener

\* the listener is called with the oldest event on its way
HandleEvent ==
  /\ Len(channel) > 0
  /\ onDownloadProgress(Head(channel))
  /\ channel' = Tail(channel)
  /\ UNCHANGED <<effectDeps, curListen, orphans, leaked, handledBy, download>>
  /\ UNCHANGED notTheListener

NextChannel ==
  \/ SetInstallVersion \/ InstallClick \/ ThreadSafeChange \/ ConfirmInstall
  \/ CancelInstall \/ InstallVersionDone \/ InstallRefreshList \/ InstallRefreshActive
  \/ InstallSwitchDone \/ InstallDone
  \/ EmitToChannel \/ HandleEvent

SpecChannel == InitListen /\ [][NextChannel]_vars

\* ------------------------------------------------------------------------
\* hooks/usePhpVersions.js: loadVersionStatuses and the effect that calls it
\* ------------------------------------------------------------------------
\* the base version loadVersionStatuses extracts from an installed entry
statusBaseVersion(v) ==
  IF Includes(v, HyphenTs) \/ Includes(v, HyphenNts)
  THEN Split(v, "-")[1]
  ELSE IF EndsWith(v, DotTs) \/ EndsWith(v, DotNts)
  THEN LET lastDotIndex == LastIndexOf(v, ".")
           beforeLastDot == SubSeq(v, 1, lastDotIndex - 1)
       IN  Join(Slice3(Split(beforeLastDot, ".")), ".")
  ELSE Join(Slice3(Split(v, ".")), ".")

\* Array.from(new Set(list)): the distinct elements in insertion order
RECURSIVE ArrayFromSet(_)
ArrayFromSet(list) ==
  IF Len(list) = 0 THEN << >>
  ELSE LET rest == ArrayFromSet(SubSeq(list, 1, Len(list) - 1))
       IN  IF InList(list[Len(list)], rest) THEN rest ELSE Append(rest, list[Len(list)])

\* allVersions: the available versions and the base versions of the installed entries
allVersions(available, installed) ==
  ArrayFromSet(available \o [i \in 1..Len(installed) |-> statusBaseVersion(installed[i])])

\* a status not returned (the null of a failed variant query)
NoStatus == [version |-> Null, installed |-> FALSE, active |-> FALSE, online |-> FALSE]

\* a map callback that has not run yet: key is where its result goes, version is
\* the argument of its getVersionStatus
Call(kind, key, version) ==
  [kind |-> kind, key |-> key, version |-> version, state |-> "unstarted",
   status |-> NoStatus]

\* a map in which only the first callback would run to its await
mapAsyncFirstOnly(calls) ==
  [i \in 1..Len(calls) |-> IF i = 1 THEN [calls[i] EXCEPT !.state = "pending"] ELSE calls[i]]

\* Array.prototype.map with an async callback: every callback runs to its first
\* await, which is on the getVersionStatus it has just invoked
mapAsync(calls) == [i \in 1..Len(calls) |-> [calls[i] EXCEPT !.state = "pending"]]

statusPromises(available, installed) ==
  LET all == allVersions(available, installed)
  IN  mapAsync([i \in 1..Len(all) |-> Call("status", all[i], all[i])])

variantPromises(installed) ==
  mapAsync([i \in 1..Len(installed) |->
              Call("variant", installed[i], statusBaseVersion(installed[i]))])

\* getVersionStatus(version): the VersionStatus of the backend
getVersionStatus(version) ==
  [version |-> version,
   installed |-> \E id \in bInstalled : id.base = parseIdentity(version).base,
   active |-> bActive # NoneId /\ bActive.base = parseIdentity(version).base,
   online |-> TRUE]

\* the status a status callback substitutes when its query fails
fallbackStatus(version, installed, active) ==
  [version |-> version,
   installed |-> \E i \in 1..Len(installed) : StartsWith(installed[i], version),
   active |-> \/ active = version
              \/ \E i \in 1..Len(installed) :
                    installed[i] = active /\ StartsWith(installed[i], version),
   online |-> TRUE]

\* a statuses object that keeps the last result only
statusesOfLastOnly(results) ==
  IF Len(results) = 0 THEN {}
  ELSE {[key |-> results[Len(results)].key, status |-> results[Len(results)].status]}

\* the statuses object built from the results, a later result replacing an
\* earlier one under the same key
RECURSIVE statusesOf(_)
statusesOf(results) ==
  IF Len(results) = 0 THEN {}
  ELSE LET rest == statusesOf(SubSeq(results, 1, Len(results) - 1))
           last == results[Len(results)]
       IN  {e \in rest : e.key # last.key} \cup {[key |-> last.key, status |-> last.status]}

Settled(call) == call.state \in {"ok", "failed"}

\* loadVersionStatuses(availableVersions, installedVersions, activeVersion) up to
\* its await Promise.all
loadVersionStatuses(available, installed, active) ==
  IF Len(available) = 0 /\ Len(installed) = 0
  THEN UNCHANGED <<loadingStatuses, batches>>
  ELSE /\ loadingStatuses' = TRUE
       /\ batches' = Append(batches,
            [installed |-> installed, active |-> active,
             all |-> allVersions(available, installed),
             calls |-> statusPromises(available, installed) \o variantPromises(installed),
             writes |-> 0, joined |-> FALSE])

\* the effect on [availableVersions, installedVersions, activeVersion, loading]
StatusEffect ==
  /\ ~loading
  /\ \/ prevVersionsRef.available # availableVersions
     \/ prevVersionsRef.installed # installedVersions
     \/ prevVersionsRef.active # activeVersion
  /\ Len(availableVersions) > 0 \/ Len(installedVersions) > 0
  /\ prevVersionsRef' = [available |-> availableVersions, installed |-> installedVersions,
                         active |-> activeVersion]
  /\ loadVersionStatuses(availableVersions, installedVersions, activeVersion)
  /\ UNCHANGED <<versionStatuses, mainVars, utilVars>>

\* one getVersionStatus of a batch returns or fails
StatusSettle ==
  /\ \E b \in 1..Len(batches) : \E i \in 1..Len(batches[b].calls) : \E ok \in BOOLEAN :
       LET call == batches[b].calls[i]
       IN  /\ call.state = "pending"
           /\ batches' = [batches EXCEPT ![b].calls[i] =
                [call EXCEPT
                   !.state = IF ok THEN "ok" ELSE "failed",
                   !.status = IF ok THEN getVersionStatus(call.version)
                              ELSE IF call.kind = "status"
                              THEN fallbackStatus(call.version, batches[b].installed,
                                                  batches[b].active)
                              ELSE NoStatus]]
  /\ UNCHANGED <<versionStatuses, loadingStatuses, prevVersionsRef, mainVars, utilVars>>

\* Promise.all resolves: the statuses are written and the loading flag is cleared
\* (a batch that has written keeps no calls; joined records that all of them had
\* settled)
StatusJoin ==
  /\ \E b \in 1..Len(batches) :
       /\ batches[b].writes = 0
       /\ \A i \in 1..Len(batches[b].calls) : Settled(batches[b].calls[i])
       /\ versionStatuses' =
            statusesOf(SelectSeq(batches[b].calls, LAMBDA c : c.status # NoStatus))
       /\ batches' = [batches EXCEPT ![b].writes = @ + 1,
                                     ![b].joined = TRUE,
                                     ![b].calls = << >>]
  /\ loadingStatuses' = FALSE
  /\ UNCHANGED <<prevVersionsRef, mainVars, utilVars>>

\* the data hook alone: loadData and the status loading it triggers
NextStatus ==
  \/ OnReady \/ Refresh \/ LoadPaths \/ LoadListInstalled \/ LoadGetActive
  \/ LoadListAvailable
  \/ StatusEffect \/ StatusSettle \/ StatusJoin

\* persisted stores for the status loading
StatusStores ==
  { [installed |-> {}, active |-> NoneId],
    [installed |-> {Id(V820, "ts")}, active |-> Id(V820, "ts")] }

InitStatus == InitOn(StatusStores) /\ versions = << >> /\ SideInit

SpecStatus == InitStatus /\ [][NextStatus]_vars

\* ------------------------------------------------------------------------
\* hooks/useNotifications.js called with every type, duration and action list
\* ------------------------------------------------------------------------
\* a notification whose duration the action list does not change
withActionsIgnored(n, duration, actions) ==
  [message |-> n.message, type |-> n.type, duration |-> n.duration,
   actions |-> actions, explicit |-> duration # Undefined]

\* the notification of a show function once the action list is looked at:
\* actions && actions.length > 0 sets finalDuration to 0.  explicit records, for
\* the properties, that the caller passed a duration
withActions(n, duration, actions) ==
  [message |-> n.message, type |-> n.type,
   duration |-> IF Len(actions) > 0 THEN 0 ELSE n.duration,
   actions |-> actions, explicit |-> duration # Undefined]

\* the four show functions called with (message, duration, actions)
shows(message, duration, actions) ==
  { withActions(showSuccess(message, duration), duration, actions),
    withActions(showError(message, duration), duration, actions),
    withActions(showWarning(message, duration), duration, actions),
    withActions(showInfo(message, duration), duration, actions) }

\* a show function is called: the notification is appended and, if its duration
\* is positive, its timer is started
Show ==
  /\ nextId <= MaxShown
  /\ \E duration \in {Undefined, 0, RestartWarningMs}, actions \in {<< >>, <<"Retry">>} :
       \E n \in shows(Msg("Notice", Empty, ""), duration, actions) :
          /\ notifications' = Append(notifications,
                 [id |-> nextId, message |-> n.message, type |-> n.type,
                  duration |-> n.duration, actions |-> n.actions,
                  explicit |-> n.explicit])
          /\ timers' = IF n.duration > 0 THEN timers \cup {nextId} ELSE timers
  /\ nextId' = nextId + 1
  /\ UNCHANGED <<statusVars, progressVars, utilVars, backendVars, history, dataVars,
                 hasCalledOnReady, installVersion, tsModalVars, swModalVars,
                 delModalVars, installVars, switchVars, removeVars, failed, ops, typed>>

NextNotify == Show \/ Dismiss \/ TimerFire

\* a timer that was started fires: weak fairness of TimerFire, which is enabled
\* exactly when a timer is pending
TimersFire == []<>(timers = {}) \/ []<><<TimerFire>>_vars

SpecNotify == Init /\ [][NextNotify]_vars /\ TimersFire

\* ------------------------------------------------------------------------
\* utils/versionUtils.js called on version strings
\* ------------------------------------------------------------------------
\* (major, minor, patch) of the PHP releases the strings are written from
Releases == {<<8, 3, 0>>, <<8, 9, 0>>, <<8, 10, 0>>}

\* the decimal text of a number
RECURSIVE Decimal(_)
Decimal(n) ==
  IF n < 10 THEN <<DigitChars[n + 1]>>
  ELSE Decimal(n \div 10) \o <<DigitChars[(n % 10) + 1]>>

\* a release written with all three components
Text3(r) == Decimal(r[1]) \o <<".">> \o Decimal(r[2]) \o <<".">> \o Decimal(r[3])

\* a release written as major.minor
Text2(r) == Decimal(r[1]) \o <<".">> \o Decimal(r[2])

\* the variant suffixes of both encodings, and none
Suffixes == {<< >>, HyphenTs, HyphenNts, DotTs, DotNts}

\* the strings a call may be given
VersionStrings ==
  {Text3(r) \o x : r \in Releases, x \in Suffixes} \cup {Text2(<<8, 3, 0>>) \o x : x \in Suffixes}

VersionLists == UNION {[1..n -> VersionStrings] : n \in 1..MaxVersions}

ParseVersion ==
  /\ returned' = [NoReturn EXCEPT !.fn = "parseVersion",
                     !.parsed = [i \in 1..Len(versions) |-> parseVersion(versions[i])]]
  /\ UNCHANGED <<versions, statusVars, mainVars, sideVars>>

CompareVersions ==
  /\ Len(versions) >= 2
  /\ returned' = [NoReturn EXCEPT !.fn = "compareVersions",
                     !.compared = compareVersions(versions[1], versions[2])]
  /\ UNCHANGED <<versions, statusVars, mainVars, sideVars>>

GroupVersionsByBase ==
  /\ returned' = [NoReturn EXCEPT !.fn = "groupVersionsByBase",
                     !.grouped = groupVersionsByBase(versions)]
  /\ UNCHANGED <<versions, statusVars, mainVars, sideVars>>

\* InstalledVersionsTab rendered with activeVersion = versions[1] and the rest of
\* versions as installedVersions
SortedVersions ==
  /\ returned' = [NoReturn EXCEPT !.fn = "sortedVersions",
                     !.sorted = sortedVersions(Tail(versions), versions[1])]
  /\ UNCHANGED <<versions, statusVars, mainVars, sideVars>>

NextUtils == ParseVersion \/ CompareVersions \/ GroupVersionsByBase \/ SortedVersions

InitUtils ==
  /\ InitOn({[installed |-> {}, active |-> NoneId]})
  /\ bEnc = "-"
  /\ versions \in VersionLists
  /\ SideInit

SpecUtils == InitUtils /\ [][NextUtils]_vars

\* ------------------------------------------------------------------------
\* components/tabs/CacheTab
\* ------------------------------------------------------------------------
Hashes == {<<"a">>, <<"b">>}

\* the sequence without its element i
withoutCall(calls, i) == SubSeq(calls, 1, i - 1) \o SubSeq(calls, i + 1, Len(calls))

\* the early return of the render while loading: no button and no modal is there
CacheTabRendered == ~cacheLoading

\* a modal covers the tab: a click outside its content cancels it
CacheModalOpen == showRemoveConfirm \/ showClearAllConfirm

\* handleRemoveFileClick
RemoveFileClick ==
  /\ CacheTabRendered /\ ~CacheModalOpen
  /\ cacheOps < MaxCacheOps
  /\ \E hash \in cachedFiles :
        /\ ~(removingHash = hash \/ clearing)
        /\ pendingRemoveHash' = hash
  /\ showRemoveConfirm' = TRUE
  /\ cacheOps' = cacheOps + 1
  /\ UNCHANGED <<bCache, cachedFiles, cacheLoading, removingHash, clearing,
                 showClearAllConfirm, cacheCalls>>
  /\ UNCHANGED <<versions, returned, readyVars, listenVars, statusVars, mainVars>>

\* onCancel of the remove modal
RemoveFileCancel ==
  /\ CacheTabRendered /\ showRemoveConfirm
  /\ removingHash # pendingRemoveHash
  /\ showRemoveConfirm' = FALSE
  /\ pendingRemoveHash' = Null
  /\ UNCHANGED <<bCache, cachedFiles, cacheLoading, removingHash, clearing,
                 showClearAllConfirm, cacheCalls, cacheOps>>
  /\ UNCHANGED <<versions, returned, readyVars, listenVars, statusVars, mainVars>>

\* handleRemoveFile, to the await of removeCachedFile
HandleRemoveFile ==
  /\ CacheTabRendered /\ showRemoveConfirm
  /\ removingHash # pendingRemoveHash
  /\ showRemoveConfirm' = FALSE
  /\ IF pendingRemoveHash = Null
     THEN UNCHANGED <<removingHash, cacheCalls>>
     ELSE /\ removingHash' = pendingRemoveHash
          /\ cacheCalls' = Append(cacheCalls,
                 [kind |-> "remove", hash |-> pendingRemoveHash, pc |-> "command",
                  files |-> {}])
  /\ UNCHANGED <<bCache, cachedFiles, cacheLoading, clearing, pendingRemoveHash,
                 showClearAllConfirm, cacheOps>>
  /\ UNCHANGED <<versions, returned, readyVars, listenVars, statusVars, mainVars>>

\* removeCachedFile returns: the file is gone, or it was not there
RemoveCachedFileDone ==
  \E i \in 1..Len(cacheCalls) :
    LET call == cacheCalls[i] IN
    /\ call.kind = "remove" /\ call.pc = "command"
    /\ IF call.hash \in bCache
       THEN /\ bCache' = bCache \ {call.hash}
            /\ Notify(<<showSuccess(Msg("Cached file removed successfully", Empty, ""),
                                     Undefined)>>)
            /\ cacheLoading' = TRUE
            /\ cacheCalls' = [cacheCalls EXCEPT ![i].pc = "list"]
            /\ UNCHANGED <<removingHash, pendingRemoveHash>>
       ELSE /\ Notify(<<showError(Msg("Failed to remove cached file: ", Empty,
                                       "NotFoundError"), Undefined)>>)
            /\ removingHash' = Null
            /\ pendingRemoveHash' = Null
            /\ cacheCalls' = withoutCall(cacheCalls, i)
            /\ UNCHANGED <<bCache, cacheLoading>>
    /\ UNCHANGED <<cachedFiles, clearing, showRemoveConfirm, showClearAllConfirm, cacheOps>>
    /\ UNCHANGED <<versions, returned, readyVars, listenVars, statusVars, progressVars, backendVars, history,
                   dataVars, hasCalledOnReady, installVersion, tsModalVars, swModalVars,
                   delModalVars, installVars, switchVars, removeVars, failed, ops, typed>>

\* handleClearAllClick
ClearAllClick ==
  /\ CacheTabRendered /\ ~CacheModalOpen
  /\ cacheOps < MaxCacheOps
  /\ cachedFiles # {}
  /\ ~clearing
  /\ showClearAllConfirm' = TRUE
  /\ cacheOps' = cacheOps + 1
  /\ UNCHANGED <<bCache, cachedFiles, cacheLoading, removingHash, clearing,
                 showRemoveConfirm, pendingRemoveHash, cacheCalls>>
  /\ UNCHANGED <<versions, returned, readyVars, listenVars, statusVars, mainVars>>

\* onCancel of the clear-all modal
ClearAllCancel ==
  /\ CacheTabRendered /\ showClearAllConfirm
  /\ ~clearing
  /\ showClearAllConfirm' = FALSE
  /\ UNCHANGED <<bCache, cachedFiles, cacheLoading, removingHash, clearing,
                 showRemoveConfirm, pendingRemoveHash, cacheCalls, cacheOps>>
  /\ UNCHANGED <<versions, returned, readyVars, listenVars, statusVars, mainVars>>

\* handleClearAll, to the await of clearAllCache
HandleClearAll ==
  /\ CacheTabRendered /\ showClearAllConfirm
  /\ ~clearing
  /\ showClearAllConfirm' = FALSE
  /\ clearing' = TRUE
  /\ cacheCalls' = Append(cacheCalls,
         [kind |-> "clear", hash |-> Null, pc |-> "command", files |-> {}])
  /\ UNCHANGED <<bCache, cachedFiles, cacheLoading, removingHash, showRemoveConfirm,
                 pendingRemoveHash, cacheOps>>
  /\ UNCHANGED <<versions, returned, readyVars, listenVars, statusVars, mainVars>>

\* clearAllCache returns
ClearAllCacheDone ==
  \E i \in 1..Len(cacheCalls) :
    /\ cacheCalls[i].kind = "clear" /\ cacheCalls[i].pc = "command"
    /\ bCache' = {}
    /\ Notify(<<showSuccess(Msg("All cached files cleared successfully", Empty, ""),
                             Undefined)>>)
    /\ cacheLoading' = TRUE
    /\ cacheCalls' = [cacheCalls EXCEPT ![i].pc = "list"]
    /\ UNCHANGED <<cachedFiles, removingHash, clearing, showRemoveConfirm,
                   pendingRemoveHash, showClearAllConfirm, cacheOps>>
    /\ UNCHANGED <<versions, returned, readyVars, listenVars, statusVars, progressVars, backendVars, history,
                   dataVars, hasCalledOnReady, installVersion, tsModalVars, swModalVars,
                   delModalVars, installVars, switchVars, removeVars, failed, ops, typed>>

\* the backend serves listCachedFiles
ListCachedFiles ==
  \E i \in 1..Len(cacheCalls) :
    /\ cacheCalls[i].pc = "list"
    /\ cacheCalls' = [cacheCalls EXCEPT ![i].pc = "listed", ![i].files = bCache]
    /\ UNCHANGED <<bCache, cachedFiles, cacheLoading, removingHash, clearing,
                   showRemoveConfirm, pendingRemoveHash, showClearAllConfirm, cacheOps>>
    /\ UNCHANGED <<versions, returned, readyVars, listenVars, statusVars, mainVars>>

\* loadCachedFiles returns, and with it the handler that awaited it
LoadCachedFilesDone ==
  \E i \in 1..Len(cacheCalls) :
    LET call == cacheCalls[i] IN
    /\ call.pc = "listed"
    /\ cachedFiles' = call.files
    /\ cacheLoading' = FALSE
    /\ removingHash' = IF call.kind = "remove" THEN Null ELSE removingHash
    /\ pendingRemoveHash' = IF call.kind = "remove" THEN Null ELSE pendingRemoveHash
    /\ clearing' = IF call.kind = "clear" THEN FALSE ELSE clearing
    /\ cacheCalls' = withoutCall(cacheCalls, i)
    /\ UNCHANGED <<bCache, showRemoveConfirm, showClearAllConfirm, cacheOps>>
    /\ UNCHANGED <<versions, returned, readyVars, listenVars, statusVars, mainVars>>

NextCache ==
  \/ RemoveFileClick \/ RemoveFileCancel \/ HandleRemoveFile \/ RemoveCachedFileDone
  \/ ClearAllClick \/ ClearAllCancel \/ HandleClearAll \/ ClearAllCacheDone
  \/ ListCachedFiles \/ LoadCachedFilesDone

\* the tab as mounted over a cache: its effect has called loadCachedFiles
InitCache ==
  /\ InitOn({[installed |-> {}, active |-> NoneId]})
  /\ bEnc = "-"
  /\ versions = << >>
  /\ bCache \in SUBSET Hashes
  /\ cachedFiles = {}
  /\ cacheLoading = TRUE
  /\ removingHash = Null
  /\ clearing = FALSE
  /\ showRemoveConfirm = FALSE
  /\ pendingRemoveHash = Null
  /\ showClearAllConfirm = FALSE
  /\ cacheCalls = <<[kind |-> "mount", hash |-> Null, pc |-> "list", files |-> {}]>>
  /\ cacheOps = 0
  /\ HookUnmounted /\ ListenerMounted

SpecCache == InitCache /\ [][NextCache]_vars

\* ------------------------------------------------------------------------
\* hooks/useTauriReady.js
\* ------------------------------------------------------------------------
RuntimeUnavailable == <<"Tauri runtime is not available.">>

\* a retry is allowed also after maxAttempts retries
mayRetryOnceMore(n) == n <= maxAttempts

\* attempts < maxAttempts
mayRetry(n) == n < maxAttempts

\* what the hook's actions leave alone
notTheHook ==
  <<versions, returned, cacheVars, listenVars, statusVars, backendVars, history, dataVars,
    installVersion, tsModalVars, swModalVars, delModalVars, installVars, switchVars,
    removeVars, notifVars, ops, typed, progressVars>>

\* the runtime injects itself into window
TauriAppears ==
  /\ ~tauriPresent
  /\ tauriPresent' = TRUE
  /\ UNCHANGED <<mounted, isReady, readyError, attempts, checkPending, onReadyPending,
                 onReadyCalls, hasCalledOnReady>>
  /\ UNCHANGED notTheHook

\* checkTauri, called by the effect or by its timer; onReady is the callback App
\* passes, so onReadyRef.current is never empty
checkTauri ==
  /\ checkPending
  /\ IF tauriPresent
     THEN /\ isReady' = TRUE
          /\ checkPending' = FALSE
          /\ IF ~hasCalledOnReady
             THEN hasCalledOnReady' = TRUE /\ onReadyPending' = TRUE
             ELSE UNCHANGED <<hasCalledOnReady, onReadyPending>>
          /\ UNCHANGED <<attempts, readyError>>
     ELSE IF mayRetry(attempts)
     THEN /\ attempts' = attempts + 1
          /\ checkPending' = TRUE
          /\ UNCHANGED <<isReady, readyError, hasCalledOnReady, onReadyPending>>
     ELSE /\ readyError' = RuntimeUnavailable
          /\ isReady' = FALSE
          /\ checkPending' = FALSE
          /\ UNCHANGED <<attempts, hasCalledOnReady, onReadyPending>>
  /\ UNCHANGED <<tauriPresent, mounted, onReadyCalls>>
  /\ UNCHANGED notTheHook

\* the timer started on detection fires: onReadyRef.current()
OnReadyTimer ==
  /\ onReadyPending
  /\ onReadyPending' = FALSE
  /\ onReadyCalls' = onReadyCalls + 1
  /\ UNCHANGED <<tauriPresent, mounted, isReady, readyError, attempts, checkPending,
                 hasCalledOnReady>>
  /\ UNCHANGED notTheHook

\* the effect's cleanup: the timer of checkTauri is cleared, the one of onReady
\* is not. The effect's own call of checkTauri runs before any unmount can.
Unmount ==
  /\ mounted
  /\ ~(checkPending /\ attempts = 0)
  /\ mounted' = FALSE
  /\ checkPending' = FALSE
  /\ UNCHANGED <<tauriPresent, isReady, readyError, attempts, onReadyPending,
                 onReadyCalls, hasCalledOnReady>>
  /\ UNCHANGED notTheHook

NextReady == TauriAppears \/ checkTauri \/ OnReadyTimer \/ Unmount

\* the hook as mounted: its effect is about to call checkTauri
InitReady ==
  /\ InitOn({[installed |-> {}, active |-> NoneId]})
  /\ bEnc = "-"
  /\ versions = << >>
  /\ CacheTabClosed /\ ListenerMounted
  /\ tauriPresent \in BOOLEAN
  /\ mounted = TRUE
  /\ isReady = FALSE
  /\ readyError = Null
  /\ attempts = 0
  /\ checkPending = TRUE
  /\ onReadyPending = FALSE
  /\ onReadyCalls = 0

\* the timers of the hook fire: weak fairness of checkTauri and of OnReadyTimer,
\* each enabled exactly while its timer is pending
HookTimersFire ==
  /\ []<>(~checkPending) \/ []<><<checkTauri>>_vars
  /\ []<>(~onReadyPending) \/ []<><<OnReadyTimer>>_vars

SpecReady == InitReady /\ [][NextReady]_vars /\ HookTimersFire

\* ------------------------------------------------------------------------
\* Properties
\* ------------------------------------------------------------------------
\* no load and no operation is in flight
Quiescent == ld.pc = "idle" /\ inst.pc = "idle" /\ sw = << >> /\ rm.pc = "idle"

\* C1: in every quiescent state the GUI's activeVersion is null or a member of the
\* GUI's installedVersions (stated for the runs in which no command fails)
C1_ActivationInvariant ==
  (Quiescent /\ failures = 0) =>
     (activeVersion = Null \/ InList(activeVersion, installedVersions))

\* C2: once handleRemove has removed the active identity and its refresh has
\* completed with both queries answered, the GUI's activeVersion is null and its
\* installedVersions does not hold the removed identity
C2_RemoveActive ==
  (rm.pc = "done" /\ rm.wasActive /\ rm.refreshed) =>
     (activeVersion = Null /\ ~InList(rm.version, installedVersions))

\* C3: handleInstall auto-activates (issues switchVersion after installVersion) if
\* and only if no version was installed on the system when the install began
C3_FirstInstallRule ==
  /\ (inst.pc \in {"switchVersion", "refresh2.listInstalled", "refresh2.getActive"})
        => inst.systemEmpty
  /\ (inst.pc = "done" /\ ~inst.wasFirstInstall) => ~inst.systemEmpty

\* the installVersion / switchVersion / removeVersion commands in flight
InFlight ==
  (IF inst.pc \in {"installVersion", "switchVersion"} THEN 1 ELSE 0)
  + Cardinality({i \in 1..Len(sw) : sw[i].pc = "switchVersion"})
  + (IF rm.pc = "removeVersion" THEN 1 ELSE 0)

\* C4: at no time is more than one of the commands installVersion, switchVersion,
\* removeVersion in flight
C4_NoOverlap == InFlight <= 1

\* C5: in a batch of loadVersionStatuses no two getVersionStatus calls are for the
\* same version, and the calls are as many as the distinct versions of the batch
\* (the available versions and the base versions of the installed entries)
C5_OneQueryPerVersion ==
  \A b \in 1..Len(batches) :
     batches[b].writes = 0 =>
        /\ Len(batches[b].calls) = Len(batches[b].all)
        /\ \A i, j \in 1..Len(batches[b].calls) :
              i # j => batches[b].calls[i].version # batches[b].calls[j].version

filteredVersions ==
  IF installVersion = Empty THEN availableVersions
  ELSE SelectSeq(availableVersions, LAMBDA v : Includes(v, installVersion))

\* (versionStatuses[version] || {}).online
statusOnline(version) ==
  \E e \in versionStatuses : e.key = version /\ e.status.online

\* the card of `version` carries the Offline badge, and its Install button is
\* disabled by !status.online
OfflineBadge(version) ==
  ~loading /\ InList(version, filteredVersions) /\ ~statusOnline(version)

\* C11: a version is shown as Offline (badge, Install button disabled) only if a
\* status recorded for it says it is not online; a version without a recorded
\* status, or with the status substituted for a failed query, is not
C11_UnknownNotOffline ==
  \A v \in BaseVersions :
     OfflineBadge(v) => \E e \in versionStatuses : e.key = v /\ ~e.status.online

\* C12: while installVersion runs, an archive served from the cache has set
\* downloadProgress.isCached and the progress text 'Using cached PHP archive...'
\* by its one event, and no event of a streamed download has set isCached
C12_CachedRecognised ==
  inst.pc = "installVersion" =>
     /\ download.kind = "cached" =>
           downloadProgress.isCached /\ installProgress = "Using cached PHP archive..."
     /\ download.kind = "streamed" => ~downloadProgress.isCached

\* a release written in full with a variant under one encoding ("-" or ".")
Encoded(r, enc, variant) == Text3(r) \o <<enc>> \o VariantText(variant)

\* C13: parseVersion gives the hyphen and the dot encoding of one identity the
\* same baseVersion, the three-component base, and the same variant
C13_BothEncodingsAgree ==
  returned.fn = "parseVersion" =>
    \A r \in Releases, v \in Variants, i, j \in 1..Len(versions) :
       versions[i] = Encoded(r, "-", v) /\ versions[j] = Encoded(r, ".", v)
       => /\ returned.parsed[i].baseVersion = Text3(r)
          /\ returned.parsed[j].baseVersion = Text3(r)
          /\ returned.parsed[i].variant = VariantText(v)
          /\ returned.parsed[j].variant = VariantText(v)

C13_Witness ==
  /\ returned.fn = "parseVersion"
  /\ \E r \in Releases, v \in Variants, i, j \in 1..Len(versions) :
        /\ versions[i] = Encoded(r, "-", v) /\ versions[j] = Encoded(r, ".", v)
        /\ returned.parsed[i].baseVersion = returned.parsed[j].baseVersion
        /\ returned.parsed[i].variant = returned.parsed[j].variant

\* release a is numerically newer than release b
Newer(a, b) ==
  \/ a[1] > b[1]
  \/ a[1] = b[1] /\ a[2] > b[2]
  \/ a[1] = b[1] /\ a[2] = b[2] /\ a[3] > b[3]

C15_ShortIdentityPadded ==
  /\ returned.fn = "parseVersion" =>
       \A r \in Releases, i, j \in 1..Len(versions) :
          r[3] = 0 /\ versions[i] = Text2(r) /\ versions[j] = Text3(r)
          => returned.parsed[i].baseVersion = returned.parsed[j].baseVersion
  /\ returned.fn = "groupVersionsByBase" =>
       (versions = <<Text2(<<8, 3, 0>>) \o HyphenTs, Text3(<<8, 3, 0>>) \o HyphenNts>>
        => Len(returned.grouped) = 1)

\* C16: groupVersionsByBase partitions its input: the keys are distinct, every
\* string is in the group keyed by its own base version and in no other, and a
\* group holds its strings in input order
C16_GroupsPartition ==
  returned.fn = "groupVersionsByBase" =>
    LET grouped == returned.grouped
    IN  /\ \A g, h \in 1..Len(grouped) : grouped[g].key = grouped[h].key => g = h
        /\ \A i \in 1..Len(versions) :
              \E g \in 1..Len(grouped) : grouped[g].key = parseVersion(versions[i]).baseVersion
        /\ \A g \in 1..Len(grouped) :
              /\ grouped[g].variants # << >>
              /\ grouped[g].variants =
                   SelectSeq(versions, LAMBDA v : parseVersion(v).baseVersion = grouped[g].key)

C16_Witness ==
  /\ returned.fn = "groupVersionsByBase"
  /\ Len(returned.grouped) = 2
  /\ Len(returned.grouped[1].variants) = 2
  /\ versions[2] \notin {versions[1], versions[3]}
  /\ parseVersion(versions[1]).baseVersion = parseVersion(versions[3]).baseVersion
  /\ parseVersion(versions[2]).baseVersion # parseVersion(versions[1]).baseVersion

\* C17: the Remove control of the card that holds the active version is disabled,
\* and removeVersion is never in flight for the identity that equals activeVersion
C17_ActiveNotRemovable ==
  /\ \A baseVersion \in BaseVersions :
        InList(activeVersion, groupVariants(installedVersions, baseVersion))
        => ~CardEnabled(baseVersion)
  /\ rm.pc = "removeVersion" => rm.version # activeVersion

\* C18: a loadData that ended in failure has released isLoadingRef and loading;
\* the loadData that follows it is not skipped and has cleared the error state
\* while it runs; and its last step commits the lists it fetched, leaves no error
\* and releases both flags again
C18_RecoversAfterFailure ==
  /\ [](error # Null => ~isLoadingRef /\ ~loading /\ ld.pc = "idle")
  /\ []((ld.pc # "idle" /\ ld.afterFailure) => error = Null /\ isLoadingRef /\ loading)
  /\ [][(ld.pc = "listAvailable" /\ ld.afterFailure /\ ld'.pc = "idle")
         => /\ installedVersions' = ld.installed
            /\ activeVersion' = ld.active
            /\ ~committed'.queryFailed => availableVersions' = listAvailable
            /\ error' = Null /\ ~isLoadingRef' /\ ~loading']_vars

C18_Witness ==
  /\ committed.some /\ committed.afterFailure /\ ~committed.queryFailed
  /\ ld.pc = "idle" /\ error = Null /\ ~loading /\ ~isLoadingRef
  /\ installedVersions = committed.installed /\ installedVersions # << >>
  /\ availableVersions = listAvailable

\* C19: when a batch of status queries completes, whichever of them failed, the
\* status of every query that succeeded is recorded under its key, the error
\* state and the installed, available and active data are as they were, and
\* loadingStatuses is false; and no failing query changes the error state or the
\* data; and loadingStatuses is false once every batch has completed
C19_StatusErrorsContained ==
  /\ [][\A b \in 1..Len(batches) :
          (batches[b].writes = 0 /\ Len(batches') = Len(batches) /\ batches'[b].writes = 1)
          => /\ \A i \in 1..Len(batches[b].calls) :
                  batches[b].calls[i].state = "ok"
                  => \E e \in versionStatuses' :
                        /\ e.key = batches[b].calls[i].key
                        /\ \E j \in 1..Len(batches[b].calls) :
                              /\ batches[b].calls[j].key = e.key
                              /\ batches[b].calls[j].state = "ok"
                              /\ batches[b].calls[j].status = e.status
             /\ error' = error
             /\ installedVersions' = installedVersions
             /\ availableVersions' = availableVersions
             /\ activeVersion' = activeVersion
             /\ ~loadingStatuses']_vars
  /\ [][(\E b \in 1..Len(batches) : \E i \in 1..Len(batches[b].calls) :
            /\ Len(batches') = Len(batches)
            /\ Len(batches'[b].calls) = Len(batches[b].calls)
            /\ batches[b].calls[i].state = "pending"
            /\ batches'[b].calls[i].state = "failed")
         => /\ error' = error
            /\ installedVersions' = installedVersions
            /\ availableVersions' = availableVersions
            /\ activeVersion' = activeVersion]_vars
  /\ []((\A b \in 1..Len(batches) : batches[b].joined) => ~loadingStatuses)

\* one batch has completed; the query for its installed variant failed, so the
\* variant has no entry, and the status of the base version is recorded
C19_Witness ==
  /\ Len(batches) = 1 /\ batches[1].joined /\ ~loadingStatuses
  /\ Len(batches[1].installed) = 1
  /\ \A e \in versionStatuses : e.key # batches[1].installed[1]
  /\ \E e \in versionStatuses : e.key = V820 /\ e.status = getVersionStatus(V820)
  /\ error = Null /\ installedVersions = batches[1].installed

\* C20: the text handleInstall passes to switchVersion after a first install names
\* the variant that its installVersion installed, and once that switchVersion has
\* succeeded on a system that was empty the active identity is the installed one
C20_ActivatesInstalled ==
  /\ inst.pc = "switchVersion"
        => parseVersion(inst.version).variant = VariantText(inst.threadSafeParam)
  /\ (inst.pc \in {"refresh2.listInstalled", "refresh2.getActive"} /\ inst.systemEmpty)
        => bActive = installTarget(inst.version, inst.threadSafeParam)

C22_IndicatorAccurate ==
  (\E b \in 1..Len(batches) : ~batches[b].joined) => loadingStatuses

\* C23: the guard isLoadingRef is held exactly while a loadData execution is
\* between its queries, and a loadData called meanwhile (by useTauriReady) leaves
\* the data state, the running execution and the backend as they are
C23_LoadNotReentrant ==
  /\ [](isLoadingRef <=> ld.pc # "idle")
  /\ [][(isLoadingRef /\ ~hasCalledOnReady /\ hasCalledOnReady')
         => UNCHANGED <<dataVars, bInstalled, bActive, history>>]_vars

\* a loadData called by Refresh is running with no failure so far and nothing
\* committed yet, and onReady has been called: its loadData was the skipped one
C23_Witness ==
  /\ isLoadingRef /\ ld.caller = "refresh" /\ hasCalledOnReady
  /\ failures = 0 /\ availableVersions = << >> /\ error = Null

\* C24: a set in-progress flag leads to a state in which the flag is false, the
\* operating version is null and the progress text is empty, for install, switch
\* and remove
C24_FlagsReleased ==
  /\ isInstalling ~> (~isInstalling /\ installingVersion = Null /\ installProgress = "")
  /\ isSwitching ~> (~isSwitching /\ switchingVersion = Null /\ switchProgress = "")
  /\ isDeleting ~> (~isDeleting /\ deletingVersion = Null /\ deleteProgress = "")

\* an install has failed and released its flag
C24_Witness ==
  /\ \E f \in failed : f.text = "Failed to install PHP"
  /\ ~isInstalling /\ installingVersion = Null /\ installProgress = ""

\* created without a duration as an error or a warning, or with actions
Sticky(n) ==
  \/ ~n.explicit /\ n.type \in {"error", "warning"}
  \/ Len(n.actions) > 0

\* created without a duration and without actions as a success or an info
AutoDismissed(n) ==
  ~n.explicit /\ Len(n.actions) = 0 /\ n.type \in {"success", "info"}

Shown(id) == \E i \in 1..Len(notifications) : notifications[i].id = id

\* C25: a notification created as an error or warning without a duration, or
\* with actions, has no timer, and the step that removes it is not the firing of
\* a timer; a success or info notification created without duration and actions
\* is eventually no longer in the list
C25_LifetimePolicy ==
  /\ [](\A i \in 1..Len(notifications) :
          Sticky(notifications[i]) => notifications[i].id \notin timers)
  /\ [][\A i \in 1..Len(notifications) :
          (/\ Sticky(notifications[i])
           /\ \A j \in 1..Len(notifications') :
                 notifications'[j].id # notifications[i].id)
          => timers' = timers]_vars
  /\ \A id \in 1..MaxShown :
        (\E i \in 1..Len(notifications) :
            notifications[i].id = id /\ AutoDismissed(notifications[i]))
        ~> ~Shown(id)

\* a sticky notification is on display after an auto-dismissed one, shown before
\* it, has gone, and no timer is pending
C25_Witness ==
  /\ nextId = 3 /\ timers = {}
  /\ Len(notifications) = 1 /\ notifications[1].id = 2 /\ Sticky(notifications[1])
  /\ notifications[1].type = "success"

\* the cache commands in flight: removeCachedFile and clearAllCache calls the
\* backend has not answered
commandsInFlight == {i \in 1..Len(cacheCalls) : cacheCalls[i].pc = "command"}

\* C26: at no time are two of the commands removeCachedFile / clearAllCache of the
\* cache tab in flight together
C26_CacheMutationsSerialized == Cardinality(commandsInFlight) <= 1

\* C27: onReady is invoked at most once and only after the runtime was detected;
\* checkTauri retries at most maxAttempts times, and polling stops: on detection,
\* or (while mounted) with the error set, after which onReady is never invoked
C27_PollingTerminatesFiresOnce ==
  /\ [](onReadyCalls <= 1)
  /\ [](onReadyPending \/ onReadyCalls > 0 => isReady /\ tauriPresent)
  /\ [](attempts <= maxAttempts)
  /\ [](mounted /\ ~checkPending /\ ~isReady => readyError # Null)
  /\ [](readyError # Null =>
          attempts = maxAttempts /\ ~checkPending /\ ~onReadyPending /\ onReadyCalls = 0)
  /\ [][readyError # Null =>
          readyError' = readyError /\ ~checkPending' /\ onReadyCalls' = 0]_vars
  /\ <>[](~checkPending)
  /\ [](onReadyPending => <>(onReadyCalls = 1))

\* the runtime was detected by the last check allowed, and onReady was invoked
C27_Witness ==
  /\ attempts = maxAttempts /\ isReady /\ onReadyCalls = 1 /\ readyError = Null

\* C28: once no operation and no load is in flight, the installedVersions of the
\* GUI is the backend's installed list (stated for the states in which the first
\* loadData was called, no query failed, and no command failed: every
\* notification shown so far is still on display and none reports an error)
C28_ConvergesToBackend ==
  (Quiescent /\ hasCalledOnReady /\ failures = 0 /\ failed = {}
     /\ Len(notifications) = nextId - 1
     /\ \A i \in 1..Len(notifications) : notifications[i].type # "error")
  => installedVersions = listInstalled

\* C29: every download-progress event emitted while installVersion is in flight
\* is handled by exactly one registered listener
C29_EventsHandledOnce == handledBy \subseteq {1}

\* the stage of an install a progress text stands for
progressRank(text) ==
  CASE text = "" -> 0
    [] text = "Preparing download..." -> 1
    [] text \in {"Downloading PHP archive...", "Using cached PHP archive..."} -> 2
    [] text = "Installing..." -> 3
    [] text = "Activating version..." -> 4
    [] OTHER -> 5

\* C30: during one handleInstall the progress text never goes back to the text of
\* an earlier stage; in particular no download-progress event replaces
\* "Installing..." or a later text by a download text
C30_ProgressForward ==
  [][(isInstalling /\ isInstalling')
       => progressRank(installProgress') >= progressRank(installProgress)]_vars

\* C7: the installed list and the active version that loadData commits were both
\* true of the backend at one instant (stated for the loads none of whose queries
\* failed)
C7_ConsistentSnapshot ==
  (committed.some /\ ~committed.queryFailed) =>
     [installed |-> committed.installed, active |-> committed.active] \in history

\* C8: installVersion is never issued for a (version, variant) that the GUI's
\* installed list holds, in either encoding
C8_NoReinstall == (inst.pc = "installVersion") => ~inst.alreadyListed

\* C10: a loadData in which listInstalled, getActive or listAvailable failed ends
\* with the error state set
C10_NoSwallowedFailure == (committed.some /\ committed.queryFailed) => error # Null

\* the error notifications on display, as the failures they report
Reported ==
  {[text |-> notifications[i].message.text, error |-> notifications[i].message.error] :
     i \in {j \in 1..Len(notifications) : notifications[j].type = "error"}}

\* C9: every failure of installVersion, switchVersion or removeVersion (the
\* first-install switchVersion included) is on display as an error notification
\* from the moment the handler catches it until dismissNotification removes it
C9_FailureReported == failed \subseteq Reported

\* a failed command's notification still on display when every handler has
\* finished and every timer has fired
C9_Witness == failed # {} /\ Quiescent /\ timers = {} /\ ~isInstalling /\ ~isSwitching /\ ~isDeleting

====
